---- MODULE Spec2Model ----
(***************************************************************************)
(* A model of the glTF asset pipeline of gltfio (AssetPipeline.cpp):       *)
(* flattenBuffers, flattenPrims (with filterPrim and bakeTransform), the    *)
(* composite flatten, parameterize (driving the xatlas atlas builder), save *)
(* and the pipeline's teardown, over a heap of cgltf documents.             *)
(*                                                                         *)
(* A document is a record of parallel arrays.  A pointer into an array is  *)
(* a record [d, i]: the array (of the pointer's kind) that document d      *)
(* allocated, and the 1-based position in it.  Null is the null pointer;   *)
(* Wild(w) is a non-null pointer that addresses no record, which is what   *)
(* `new_array + (old_ptr - old_array)` yields when old_ptr is null or      *)
(* points into another array.  A char* is a string; the null char* is the  *)
(* empty string (no string the program handles is empty).                  *)
(***************************************************************************)
EXTENDS Integers, Sequences, FiniteSets, TLC

VARIABLES
    heap,      \* every cgltf_data the pipeline holds: source assets and mStorage
    handles,   \* the asset handles the caller has been given
    flags,     \* the flags argument the caller passes to flattenPrims / flatten
    calls,     \* number of stage calls made so far
    last,      \* the last call: its name, argument, result and how it ended
    ndebug,    \* whether the build defines NDEBUG (assert expands to nothing)
    mem,       \* mSourceAssets, mStorage and the cgltf_free calls made so far
    slog,      \* the messages the last call wrote to utils::slog.e
    xatlas,    \* the calls the last parameterize made on its atlas, in order
    atlasMeshes, \* the meshes that atlas reported after PackCharts (<<>> if none)
    files      \* the files written by save, in the order they were written

vars == <<heap, handles, flags, calls, last, ndebug, mem, slog, xatlas, atlasMeshes, files>>

----------------------------------------------------------------------------
(* Bounds of the model. *)

\* Largest number of extra buffers placed before the geometry buffer.
MaxPad == 2

\* Largest number of pipeline calls in one behaviour.
MaxCalls == 2

----------------------------------------------------------------------------
(* Program constants. *)

\* AssetPipeline::FILTER_TRIANGLES, the one recognised flag bit.
FILTER_TRIANGLES == 1

GENERATOR_ID == "gltfio"
POSITION == "POSITION"
NORMAL == "NORMAL"
TANGENT == "TANGENT"

----------------------------------------------------------------------------
(* Pointers. *)

Null == [d |-> 0, i |-> 0]

Wild(w) == [d |-> -1, i |-> w]

\* The garbage addresses an out-of-array pointer computation may produce.
WildAddrs == {1, 2}

IsNull(p) == p = Null

IsWild(p) == p.d = -1

\* new_array + (ptr - old_array): well defined only when ptr points into
\* old_array; otherwise (null, or a pointer into another array) the result is
\* a garbage, non-null address.
Rebase(ptr, oldArr, newArr, w) ==
    IF ptr.d = oldArr /\ ptr.d > 0 THEN [d |-> newArr, i |-> ptr.i] ELSE Wild(w)

\* cond ? new_array + (ptr - old_array) : nullptr
RebaseOpt(ptr, oldArr, newArr, w) ==
    IF IsNull(ptr) THEN Null ELSE Rebase(ptr, oldArr, newArr, w)

----------------------------------------------------------------------------
(* Sequences and bytes. *)

RECURSIVE SumTo(_, _)
\* f[1] + ... + f[n]
SumTo(f, n) == IF n = 0 THEN 0 ELSE SumTo(f, n - 1) + f[n]

RECURSIVE Flat(_, _)
\* s[1] \o ... \o s[n]
Flat(s, n) == IF n = 0 THEN <<>> ELSE Flat(s, n - 1) \o s[n]

\* The array with the elements of s, each computed once.
Array(s) == s \o <<>>

Min2(a, b) == IF a < b THEN a ELSE b

Max2(a, b) == IF a > b THEN a ELSE b

Abs(n) == IF n < 0 THEN -n ELSE n

RECURSIVE Log2Floor(_)
Log2Floor(a) == IF a < 2 THEN 0 ELSE 1 + Log2Floor(a \div 2)

\* The four little-endian bytes of the IEEE-754 binary32 value of integer n
\* (|n| < 2^24, so the value is exact).
F32Bytes(n) ==
    IF n = 0 THEN <<0, 0, 0, 0>>
    ELSE LET s == IF n < 0 THEN 1 ELSE 0
             a == Abs(n)
             e == Log2Floor(a)
             E == e + 127
             M == (a - 2^e) * 2^(23 - e)
         IN  <<M % 256, (M \div 256) % 256,
               (E % 2) * 128 + (M \div 65536), s * 128 + (E \div 2)>>

\* The value of the binary32 whose little-endian bytes are b[1..4]; the model
\* only stores integral values, so the result is an integer.
F32Value(b) ==
    LET s == b[4] \div 128
        E == (b[4] % 128) * 2 + (b[3] \div 128)
        M == (b[3] % 128) * 65536 + b[2] * 256 + b[1]
        mant == 8388608 + M
        mag == IF E = 0 THEN 0
               ELSE IF E >= 150 THEN mant * 2^(E - 150)
               ELSE mant \div 2^(150 - E)
    IN  IF s = 1 THEN -mag ELSE mag

\* The little-endian bytes of an unsigned integer of the given width.
UIntBytes(n, width) == [k \in 1..width |-> (n \div 256^(k - 1)) % 256]

RECURSIVE UIntValue(_, _)
UIntValue(b, width) ==
    IF width = 0 THEN 0 ELSE UIntValue(b, width - 1) + b[width] * 256^(width - 1)

\* cgltf_component_size
ComponentSize(ctype) ==
    CASE ctype = "r_8u" -> 1
      [] ctype = "r_16u" -> 2
      [] ctype = "r_32u" -> 4
      [] ctype = "r_32f" -> 4
      [] OTHER -> 0

\* getNumFloats: the number of floats of an element of the given shape.
getNumFloats(type) ==
    CASE type = "vec2" -> 2
      [] type = "vec3" -> 3
      [] type = "vec4" -> 4
      [] type = "mat2" -> 4
      [] type = "mat3" -> 9
      [] type = "mat4" -> 16
      [] OTHER -> 1

----------------------------------------------------------------------------
(* Reading a document (cgltf). *)

\* The arrays a document's top-level pointers address.  A stage that writes
\* `result->textures = source->textures` shares the source's array: the
\* result's texturesAt names the document that allocated it.
Images(h, d) == h[h[d].imagesAt].images

Textures(h, d) == h[h[d].texturesAt].textures

Materials(h, d) == h[h[d].materialsAt].materials

\* The record a pointer addresses, for pointers that address one.
Addresses(p, arr) == p.d > 0 /\ p.i \in 1..Len(arr)

\* First byte of element `index` of an accessor within its buffer, 0-based:
\* accessor->offset + buffer_view->offset + accessor->stride * index.
ElementOffset(h, acc, index) ==
    acc.offset + h[acc.buffer_view.d].buffer_views[acc.buffer_view.i].offset
        + acc.stride * index

\* The bytes of the buffer an accessor's view points into.
AccessorData(h, acc) ==
    LET view == h[acc.buffer_view.d].buffer_views[acc.buffer_view.i]
    IN  h[view.buffer.d].buffers[view.buffer.i].data

\* The raw bytes of component c (0-based) of element `index`.
ComponentBytes(h, acc, index, c) ==
    LET w == ComponentSize(acc.component_type)
        at == ElementOffset(h, acc, index) + c * w
    IN  SubSeq(AccessorData(h, acc), at + 1, at + w)

\* cgltf_component_read_float for the non-normalized component types.
ComponentFloat(ctype, b) ==
    IF ctype = "r_32f" THEN F32Value(b) ELSE UIntValue(b, ComponentSize(ctype))

\* cgltf_accessor_read_float(accessor, index, out, n): the first n components
\* of element `index`, converted to float.
cgltf_accessor_read_float(h, acc, index, n) ==
    [c \in 1..n |->
        ComponentFloat(acc.component_type, ComponentBytes(h, acc, index, c - 1))]

\* cgltf_accessor_read_index(accessor, index): element `index` as an unsigned
\* integer, whatever the accessor's width.
cgltf_accessor_read_index(h, acc, index) ==
    UIntValue(ComponentBytes(h, acc, index, 0), ComponentSize(acc.component_type))

\* All the bytes an accessor reads, element by element, through its view.
AccessorBytes(h, acc) ==
    LET w == ComponentSize(acc.component_type) * getNumFloats(acc.type)
        elems == [k \in 1..acc.count |->
                    LET at == ElementOffset(h, acc, k - 1)
                    IN  SubSeq(AccessorData(h, acc), at + 1, at + w)]
    IN  Flat(elems, acc.count)

\* cgltf_node_transform_local for translation / scale nodes: the local matrix
\* maps v to scale * v + translation, kept as the pair [s, t].
LocalTransform(node) ==
    [s |-> IF node.has_scale THEN node.scale ELSE <<1, 1, 1>>,
     t |-> IF node.has_translation THEN node.translation ELSE <<0, 0, 0>>]

\* parent * child for two such matrices.
Compose(P, L) ==
    [s |-> [k \in 1..3 |-> P.s[k] * L.s[k]],
     t |-> [k \in 1..3 |-> P.s[k] * L.t[k] + P.t[k]]]

RECURSIVE WorldTransform(_, _, _)
\* cgltf_node_transform_world: the local matrices of the node and of every
\* ancestor reached through node->parent, composed root first.  `fuel` bounds
\* the walk by the number of nodes.
WorldTransform(h, p, fuel) ==
    LET node == h[p.d].nodes[p.i]
    IN  IF IsNull(node.parent) \/ fuel = 0 THEN LocalTransform(node)
        ELSE Compose(WorldTransform(h, node.parent, fuel - 1), LocalTransform(node))

----------------------------------------------------------------------------
(* Source documents: what cgltf_parse_file + cgltf_load_buffers hand to the  *)
(* pipeline.  A source document is heap[1]; its pointers address its own     *)
(* arrays.  The family below is a unit triangle with options.                *)

Identity == [has_translation |-> FALSE, translation |-> <<0, 0, 0>>,
             has_scale |-> FALSE, scale |-> <<1, 1, 1>>]

Translate(x, y, z) == [has_translation |-> TRUE, translation |-> <<x, y, z>>,
                       has_scale |-> FALSE, scale |-> <<1, 1, 1>>]

Scale(x, y, z) == [has_translation |-> FALSE, translation |-> <<0, 0, 0>>,
                   has_scale |-> TRUE, scale |-> <<x, y, z>>]

\* The unit triangle of the specification's scenarios.
TriPositions == <<<<0, 0, 0>>, <<1, 0, 0>>, <<0, 1, 0>>>>
TriIndices == <<0, 1, 2>>
TriNormals == <<<<0, 0, 2>>, <<0, 0, 2>>, <<0, 0, 2>>>>
TriTangents == <<<<2, 0, 0, 1>>, <<2, 0, 0, 1>>, <<2, 0, 0, -1>>>>
TriUvs == <<<<0, 0>>, <<1, 0>>, <<0, 1>>>>

\* The bytes of a list of float vectors, packed fp32.
PackF32(vecs) ==
    Flat([k \in 1..Len(vecs) |->
            Flat([c \in 1..Len(vecs[k]) |-> F32Bytes(vecs[k][c])], Len(vecs[k]))],
         Len(vecs))

\* The bytes of a list of unsigned vectors of the given component width.
PackUInt(vecs, width) ==
    Flat([k \in 1..Len(vecs) |->
            Flat([c \in 1..Len(vecs[k]) |-> UIntBytes(vecs[k][c], width)],
                 Len(vecs[k]))],
         Len(vecs))

IndexType(width) ==
    CASE width = 1 -> "r_8u" [] width = 2 -> "r_16u" [] OTHER -> "r_32u"

\* The options of a source document, at their usual values.
Baseline ==
    [empty |-> FALSE,        \* a document with no buffers and no geometry
     pads |-> 0,             \* buffers placed before the geometry buffer
     t1 |-> Identity,        \* local transform of the root node
     t2 |-> Identity,        \* local transform of its child, which has the mesh
     rootMesh |-> "none",    \* the root's mesh: none, the child's, or another
     primB |-> "none",       \* the second primitive of the mesh and its defect
     topoB |-> "triangles",  \* topology of the second primitive
     nrm |-> FALSE,          \* NORMAL present
     tan |-> FALSE,          \* TANGENT present
     uv |-> FALSE,           \* TEXCOORD_0 present (u8, passed through)
     iw |-> 2,               \* byte width of the source indices
     nullImage |-> FALSE,    \* texture without an image
     nullMat |-> FALSE,      \* primitive without a material
     nullScene |-> FALSE,    \* document without a default scene
     uriImage |-> FALSE,     \* image without an embedded buffer view
     scenes |-> "one",       \* the scenes and the nodes they list (SourceScenes)
     nullView |-> FALSE,     \* a last accessor without a buffer view, used by nothing
     gen |-> "exporter"]     \* asset.generator of the file ("" when it has none)

\* The sections of the geometry buffer, in order; each gets a buffer view and
\* (but for the image) an accessor with the same index.
Sections(o) ==
    (IF o.uv THEN <<[kind |-> "uv", bytes |-> PackUInt(TriUvs, 1),
                     ctype |-> "r_8u", type |-> "vec2"]>> ELSE <<>>)
    \o <<[kind |-> "pos", bytes |-> PackF32(TriPositions),
          ctype |-> "r_32f", type |-> "vec3"],
         [kind |-> "idx", bytes |-> PackUInt(<<TriIndices>>, o.iw),
          ctype |-> IndexType(o.iw), type |-> "scalar"]>>
    \o (IF o.nrm THEN <<[kind |-> "nrm", bytes |-> PackF32(TriNormals),
                         ctype |-> "r_32f", type |-> "vec3"]>> ELSE <<>>)
    \o (IF o.tan THEN <<[kind |-> "tan", bytes |-> PackF32(TriTangents),
                         ctype |-> "r_32f", type |-> "vec4"]>> ELSE <<>>)
    \o <<[kind |-> "img", bytes |-> <<137, 80>>, ctype |-> "r_8u", type |-> "scalar"]>>

\* Position of the section of the given kind.
SecIndex(secs, kind) == CHOOSE k \in 1..Len(secs) : secs[k].kind = kind

PadSize(k) == IF k % 3 = 1 THEN 4 ELSE IF k % 3 = 2 THEN 8 ELSE 2

PadBuffer(k) ==
    [size |-> PadSize(k), data |-> [j \in 1..PadSize(k) |-> 16 * k + j], uri |-> ""]

\* The scenes of a source document; the first one is the default scene.
\* "one": a scene listing the root; "two": a second scene lists the child;
\* "emptyDefault": the default scene lists nothing and a second scene lists
\* the root; "none": the only scene lists nothing.
SourceScenes(kind) ==
    CASE kind = "one" -> <<[name |-> "main", nodes |-> 1, nodes_count |-> 1]>>
      [] kind = "two" -> <<[name |-> "main", nodes |-> 1, nodes_count |-> 1],
                           [name |-> "alt", nodes |-> 2, nodes_count |-> 1]>>
      [] kind = "emptyDefault" -> <<[name |-> "main", nodes |-> 1, nodes_count |-> 0],
                                    [name |-> "alt", nodes |-> 1, nodes_count |-> 1]>>
      [] kind = "none" -> <<[name |-> "main", nodes |-> 1, nodes_count |-> 0]>>

\* The node indices the scenes list, scene after scene.
SourceSceneNodes(kind) ==
    CASE kind = "one" -> <<1>>
      [] kind = "two" -> <<1, 2>>
      [] kind = "emptyDefault" -> <<1>>
      [] kind = "none" -> <<>>

\* The source document with options o.
SourceDoc(o) ==
    LET self == 1  \* the handle load returns: the first document of the heap
        secs == IF o.empty THEN <<>> ELSE Sections(o)
        nSec == Len(secs)
        nPad == IF o.empty THEN 0 ELSE o.pads
        geomBytes == Flat([k \in 1..nSec |-> secs[k].bytes], nSec)
        secOffset(k) == SumTo([j \in 1..nSec |-> Len(secs[j].bytes)], k - 1)
        geomBuffer == [d |-> self, i |-> nPad + 1]
        ref(i) == [d |-> self, i |-> i]
        width(k) == ComponentSize(secs[k].ctype) * getNumFloats(secs[k].type)
        geomView(k) == [buffer |-> geomBuffer, offset |-> secOffset(k),
                        size |-> Len(secs[k].bytes), stride |-> 0, type |-> "invalid"]
        padView(k) == [buffer |-> ref(k), offset |-> 1, size |-> PadSize(k) - 1,
                       stride |-> 0, type |-> "invalid"]
        geomAcc(k) == [component_type |-> secs[k].ctype, type |-> secs[k].type,
                       offset |-> 0, count |-> Len(secs[k].bytes) \div width(k),
                       stride |-> width(k), buffer_view |-> ref(k),
                       is_sparse |-> FALSE,
                       \* declared bounds, deliberately not those of the data
                       has_min |-> secs[k].kind = "pos",
                       has_max |-> secs[k].kind = "pos",
                       min |-> IF secs[k].kind = "pos" THEN <<-5, -5, -5>> ELSE <<>>,
                       max |-> IF secs[k].kind = "pos" THEN <<5, 5, 5>> ELSE <<>>]
        padAcc(k) == [component_type |-> "r_8u", type |-> "scalar", offset |-> 0,
                      count |-> PadSize(k) - 1, stride |-> 1,
                      buffer_view |-> ref(nSec + k), is_sparse |-> FALSE,
                      has_min |-> FALSE, has_max |-> FALSE,
                      min |-> <<>>, max |-> <<>>]
        nGeomAcc == IF nSec = 0 THEN 0 ELSE nSec - 1
        pos == SecIndex(secs, "pos")
        idx == SecIndex(secs, "idx")
        \* the accessor a defective second primitive uses, after the others
        defectAcc ==
            CASE o.primB = "empty" -> <<[geomAcc(pos) EXCEPT !.count = 0]>>
              [] o.primB = "sparseattr" -> <<[geomAcc(pos) EXCEPT !.is_sparse = TRUE]>>
              [] o.primB = "sparseidx" -> <<[geomAcc(idx) EXCEPT !.is_sparse = TRUE]>>
              [] OTHER -> <<>>
        defect == ref(nGeomAcc + nPad + 1)
        attr(name, type, index, data) ==
            [name |-> name, type |-> type, index |-> index, data |-> data]
        attrsA ==
            (IF o.uv THEN <<attr("TEXCOORD_0", "texcoord", 0, ref(SecIndex(secs, "uv")))>>
             ELSE <<>>)
            \o (IF o.nrm THEN <<attr(NORMAL, "normal", 0, ref(SecIndex(secs, "nrm")))>>
                ELSE <<>>)
            \o <<attr(POSITION, "position", 0, ref(pos))>>
            \o (IF o.tan THEN <<attr(TANGENT, "tangent", 0, ref(SecIndex(secs, "tan")))>>
                ELSE <<>>)
        attrsB ==
            CASE o.primB = "none" -> <<>>
              [] o.primB \in {"empty", "sparseattr"} ->
                    <<attr(POSITION, "position", 0, defect)>>
              [] o.primB = "nullattr" ->
                    <<attr(POSITION, "position", 0, ref(pos)),
                      attr("COLOR_0", "color", 0, Null)>>
              [] o.primB = "nopos" -> <<attr("COLOR_0", "color", 0, ref(pos))>>
              [] o.primB = "twonrm" ->
                    <<attr(POSITION, "position", 0, ref(pos)),
                      attr(NORMAL, "normal", 0, ref(pos)),
                      attr(NORMAL, "normal", 0, ref(pos))>>
              [] OTHER -> <<attr(POSITION, "position", 0, ref(pos))>>
        attrsC == IF o.rootMesh = "other"
                  THEN <<attr(POSITION, "position", 0, ref(pos))>> ELSE <<>>
        material == ref(1)
        primA == [type |-> "triangles", indices |-> ref(idx),
                  material |-> IF o.nullMat THEN Null ELSE material,
                  attributes |-> 1, attributes_count |-> Len(attrsA)]
        primB == [type |-> o.topoB,
                  indices |-> CASE o.primB = "noidx" -> Null
                                [] o.primB = "sparseidx" -> defect
                                [] OTHER -> ref(idx),
                  material |-> material,
                  attributes |-> Len(attrsA) + 1, attributes_count |-> Len(attrsB)]
        primC == [type |-> "triangles", indices |-> ref(idx), material |-> material,
                  attributes |-> Len(attrsA) + Len(attrsB) + 1,
                  attributes_count |-> Len(attrsC)]
        nB == IF o.primB = "none" THEN 0 ELSE 1
        node(name, mesh, parent, children, t) ==
            [name |-> name, mesh |-> mesh, parent |-> parent, children |-> children,
             has_translation |-> t.has_translation, translation |-> t.translation,
             has_scale |-> t.has_scale, scale |-> t.scale]
    IN  [buffers |-> [k \in 1..nPad |-> PadBuffer(k)]
                     \o (IF o.empty THEN <<>>
                         ELSE <<[size |-> Len(geomBytes), data |-> geomBytes,
                                 uri |-> "geometry.bin"]>>),
         buffer_views |-> [k \in 1..nSec |-> geomView(k)] \o [k \in 1..nPad |-> padView(k)],
         accessors |-> [k \in 1..nGeomAcc |-> geomAcc(k)]
                       \o [k \in 1..nPad |-> padAcc(k)] \o defectAcc
                       \o (IF o.nullView /\ ~o.empty
                           THEN <<[geomAcc(idx) EXCEPT !.buffer_view = Null]>> ELSE <<>>),
         images |-> <<[name |-> "image",
                       buffer_view |-> IF o.uriImage \/ o.empty THEN Null
                                       ELSE ref(SecIndex(secs, "img"))]>>,
         imagesAt |-> self,
         textures |-> <<[name |-> "texture",
                         image |-> IF o.nullImage THEN Null ELSE ref(1)]>>,
         texturesAt |-> self,
         materials |-> <<[name |-> "material",
                          tex |-> <<ref(1), Null, Null, Null, Null, Null, Null>>]>>,
         materialsAt |-> self,
         meshes |-> IF o.empty THEN <<>>
                    ELSE <<[name |-> "mesh", primitives |-> 1, primitives_count |-> 1 + nB]>>
                         \o (IF o.rootMesh = "other"
                             THEN <<[name |-> "other", primitives |-> 2 + nB,
                                     primitives_count |-> 1]>>
                             ELSE <<>>),
         prims |-> IF o.empty THEN <<>>
                   ELSE <<primA>> \o (IF nB = 1 THEN <<primB>> ELSE <<>>)
                        \o (IF o.rootMesh = "other" THEN <<primC>> ELSE <<>>),
         attributes |-> IF o.empty THEN <<>> ELSE attrsA \o attrsB \o attrsC,
         nodes |-> <<node("root",
                          CASE o.empty \/ o.rootMesh = "none" -> Null
                            [] o.rootMesh = "same" -> ref(1)
                            [] OTHER -> ref(2),
                          Null, <<ref(2)>>, o.t1),
                     node("child", IF o.empty THEN Null ELSE ref(1), ref(1), <<>>, o.t2)>>,
         scenes |-> SourceScenes(o.scenes),
         nodePointers |->
            [j \in 1..SumTo([i \in 1..Len(SourceScenes(o.scenes)) |->
                                SourceScenes(o.scenes)[i].nodes_count],
                            Len(SourceScenes(o.scenes))) |->
                ref(SourceSceneNodes(o.scenes)[j])],
         scene |-> IF o.nullScene THEN Null ELSE ref(1),
         generator |-> o.gen]

\* The local transforms the source nodes take.
RootTransforms == {Translate(10, 0, 0), Scale(2, 2, 2)}
ChildTransforms == {Translate(0, 5, 0), Scale(-1, 3, 1)}

\* The second primitive: its defect and its topology.
SecondPrims ==
    {<<"ok", "triangles">>, <<"ok", "lines">>, <<"ok", "points">>,
     <<"noidx", "lines">>, <<"noidx", "triangles">>, <<"sparseidx", "triangles">>,
     <<"nullattr", "triangles">>, <<"empty", "triangles">>,
     <<"sparseattr", "triangles">>, <<"nopos", "triangles">>,
     <<"twonrm", "triangles">>}

\* Files that carry the pipeline's generator string (written by an earlier
\* run of the pipeline, or by anything else that uses the same string), and
\* a file without a generator string.  With one mesh per node the first ones
\* pass isFlattened as loaded.
ExportedVariations ==
    {[Baseline EXCEPT !.gen = GENERATOR_ID],
     [Baseline EXCEPT !.gen = GENERATOR_ID, !.rootMesh = "other", !.iw = 4],
     [Baseline EXCEPT !.gen = GENERATOR_ID, !.rootMesh = "other", !.iw = 4,
                      !.uv = TRUE, !.nrm = TRUE],
     [Baseline EXCEPT !.gen = GENERATOR_ID, !.rootMesh = "other", !.iw = 4,
                      !.primB = "ok"],
     [Baseline EXCEPT !.gen = GENERATOR_ID, !.rootMesh = "other", !.iw = 4,
                      !.scenes = "two"],
     [Baseline EXCEPT !.gen = "", !.rootMesh = "other"]}

\* The variations of the baseline a behaviour may start from.
Variations ==
    {Baseline}
    \cup {[Baseline EXCEPT !.t1 = t] : t \in RootTransforms}
    \cup {[Baseline EXCEPT !.t2 = t] : t \in ChildTransforms}
    \cup {[Baseline EXCEPT !.t1 = Scale(2, 2, 2), !.t2 = Translate(0, 5, 0)]}
    \cup {[Baseline EXCEPT !.rootMesh = m] : m \in {"same", "other"}}
    \cup {[Baseline EXCEPT !.rootMesh = "same", !.t1 = Translate(10, 0, 0),
                           !.primB = "ok", !.topoB = "lines"]}
    \cup {[Baseline EXCEPT !.primB = b[1], !.topoB = b[2]] : b \in SecondPrims}
    \cup {[Baseline EXCEPT !.nrm = TRUE], [Baseline EXCEPT !.tan = TRUE],
          [Baseline EXCEPT !.uv = TRUE],
          [Baseline EXCEPT !.nrm = TRUE, !.tan = TRUE, !.uv = TRUE,
                           !.t1 = Scale(2, 2, 2)]}
    \cup {[Baseline EXCEPT !.iw = w] : w \in {1, 4}}
    \cup {[Baseline EXCEPT !.nullImage = TRUE], [Baseline EXCEPT !.nullMat = TRUE],
          [Baseline EXCEPT !.nullScene = TRUE], [Baseline EXCEPT !.uriImage = TRUE]}
    \cup {[Baseline EXCEPT !.rootMesh = "same", !.nrm = TRUE, !.tan = TRUE]}
    \cup {[Baseline EXCEPT !.uv = TRUE, !.nullView = TRUE]}
    \cup {[Baseline EXCEPT !.rootMesh = "other", !.scenes = k] :
                k \in {"two", "emptyDefault", "none"}}
    \cup ExportedVariations

\* The variations that are also taken with more than one extra buffer.
PaddedVariations ==
    {Baseline,
     [Baseline EXCEPT !.nrm = TRUE, !.tan = TRUE, !.uv = TRUE, !.t1 = Scale(2, 2, 2)]}

\* The option records of the source documents a behaviour may start from:
\* every variation with its geometry alone and behind one extra buffer, some
\* behind more extra buffers, and the empty document.
SourceOptions ==
    {[v EXCEPT !.pads = n] : v \in Variations, n \in {0, 1}}
    \cup {[v EXCEPT !.pads = n] : v \in PaddedVariations, n \in 2..MaxPad}
    \cup {[Baseline EXCEPT !.empty = TRUE]}

----------------------------------------------------------------------------
(* Pipeline::flattenBuffers *)

\* The primitives of a document in allocation order: for each mesh in array
\* order, its primitives in order, as positions in the document's prims array.
MeshPrims(S) ==
    Flat([m \in 1..Len(S.meshes) |->
            [j \in 1..S.meshes[m].primitives_count |-> S.meshes[m].primitives + j - 1]],
         Len(S.meshes))

\* The node pointers of a document's scenes in allocation order.
SceneNodes(S) ==
    Flat([i \in 1..Len(S.scenes) |->
            [j \in 1..S.scenes[i].nodes_count |->
                S.nodePointers[S.scenes[i].nodes + j - 1]]],
         Len(S.scenes))

\* The aggregated buffer: every source buffer's bytes copied at the running
\* offset, and the offset each source buffer got.
AggregateOffsets(S) ==
    [i \in 1..Len(S.buffers) |->
        SumTo([k \in 1..Len(S.buffers) |-> S.buffers[k].size], i - 1)]

\* A variant that copies the source buffers in reverse order.
AggregateDataReversed(S) ==
    Flat([i \in 1..Len(S.buffers) |->
            LET b == S.buffers[Len(S.buffers) + 1 - i] IN SubSeq(b.data, 1, b.size)],
         Len(S.buffers))

AggregateData(S) ==
    Flat([i \in 1..Len(S.buffers) |-> SubSeq(S.buffers[i].data, 1, S.buffers[i].size)],
         Len(S.buffers))

\* A variant that clones a view without shifting its offset.
FlattenViewUnshifted(view, offsets, new, w) ==
    [view EXCEPT !.buffer = [d |-> new, i |-> 1]]

\* Whether some view of document src of heap h has no buffer of that document
\* (a null or foreign view.buffer): bufferIndex is then no index of the
\* offsets vector and offsets[bufferIndex] reads outside it.
OffsetsReadOutside(h, src) ==
    \E i \in 1..Len(h[src].buffer_views) :
        ~(h[src].buffer_views[i].buffer.d = src
          /\ h[src].buffer_views[i].buffer.i \in 1..Len(h[src].buffers))

\* A cloned buffer view: it points at the single buffer and is shifted by the
\* offset of the buffer it used to point into; a read outside the offsets
\* vector that does not trap gives the garbage value w.
FlattenView(view, offsets, new, w) ==
    [view EXCEPT !.buffer = [d |-> new, i |-> 1],
                 !.offset = view.offset
                            + (IF view.buffer.d > 0 /\ view.buffer.i \in 1..Len(offsets)
                               THEN offsets[view.buffer.i] ELSE w)]

\* The document flattenBuffers returns for source handle src; it is allocated
\* as document `new`.  w is the garbage address of this call's out-of-array
\* pointer computations.
flattenBuffers(h, src, new, w) ==
    LET S == h[src]
        totalSize == SumTo([i \in 1..Len(S.buffers) |-> S.buffers[i].size],
                           Len(S.buffers))
        offsets == AggregateOffsets(S)
        mp == MeshPrims(S)
        primAttrs == [k \in 1..Len(mp) |-> S.prims[mp[k]].attributes_count]
        meshSizes == [m \in 1..Len(S.meshes) |-> S.meshes[m].primitives_count]
        sceneSizes == [i \in 1..Len(S.scenes) |-> S.scenes[i].nodes_count]
        sn == SceneNodes(S)
    IN  [buffers |-> <<[size |-> totalSize, data |-> AggregateData(S), uri |-> ""]>>,
         buffer_views |->
            [i \in 1..Len(S.buffer_views) |->
                FlattenView(S.buffer_views[i], offsets, new, w)],
         accessors |->
            [i \in 1..Len(S.accessors) |->
                [S.accessors[i] EXCEPT
                    !.buffer_view = Rebase(S.accessors[i].buffer_view, src, new, w)]],
         images |->
            [i \in 1..Len(Images(h, src)) |->
                [Images(h, src)[i] EXCEPT
                    !.buffer_view =
                        RebaseOpt(Images(h, src)[i].buffer_view, src, new, w)]],
         imagesAt |-> new,
         textures |->
            [i \in 1..Len(Textures(h, src)) |->
                [Textures(h, src)[i] EXCEPT
                    !.image = Rebase(Textures(h, src)[i].image, S.imagesAt, new, w)]],
         texturesAt |-> new,
         materials |->
            [i \in 1..Len(Materials(h, src)) |->
                [Materials(h, src)[i] EXCEPT
                    !.tex = [t \in 1..7 |->
                                RebaseOpt(Materials(h, src)[i].tex[t],
                                          S.texturesAt, new, w)]]],
         materialsAt |-> new,
         meshes |->
            [m \in 1..Len(S.meshes) |->
                [S.meshes[m] EXCEPT !.primitives = 1 + SumTo(meshSizes, m - 1)]],
         prims |->
            [k \in 1..Len(mp) |->
                [S.prims[mp[k]] EXCEPT
                    !.material = Rebase(S.prims[mp[k]].material, S.materialsAt, new, w),
                    !.attributes = 1 + SumTo(primAttrs, k - 1),
                    !.indices = Rebase(S.prims[mp[k]].indices, src, new, w)]],
         attributes |->
            Flat([k \in 1..Len(mp) |->
                    [a \in 1..primAttrs[k] |->
                        LET sourceAttr == S.attributes[S.prims[mp[k]].attributes + a - 1]
                        IN  [sourceAttr EXCEPT
                                !.data = Rebase(sourceAttr.data, src, new, w)]]],
                 Len(mp)),
         nodes |->
            [i \in 1..Len(S.nodes) |->
                [S.nodes[i] EXCEPT !.mesh = RebaseOpt(S.nodes[i].mesh, src, new, w)]],
         scenes |->
            [i \in 1..Len(S.scenes) |->
                [S.scenes[i] EXCEPT !.nodes = 1 + SumTo(sceneSizes, i - 1)]],
         nodePointers |-> [j \in 1..Len(sn) |-> Rebase(sn[j], src, new, w)],
         scene |-> Rebase(S.scene, src, new, w),
         generator |-> S.generator]

----------------------------------------------------------------------------
(* Pipeline::filterPrim and the BakedPrim bookkeeping of flattenPrims *)

\* How an access through a garbage pointer ends: the access traps, or it
\* reads garbage bytes (a nonzero is_sparse flag, an arbitrary name).
UbOutcomes == {"fault", "garbage"}

RECURSIVE FilterAttrs(_, _, _, _)
\* The attribute loop of filterPrim from attribute k on: "keep", "cull", or
\* "ub" when it reads through a garbage pointer before deciding.
FilterAttrs(h, owner, prim, k) ==
    IF k > prim.attributes_count THEN "keep"
    ELSE LET data == h[owner].attributes[prim.attributes + k - 1].data
         IN  IF IsNull(data) THEN "cull"
             ELSE IF IsWild(data) THEN "ub"
             ELSE IF h[data.d].accessors[data.i].count = 0
                     \/ h[data.d].accessors[data.i].is_sparse THEN "cull"
             ELSE FilterAttrs(h, owner, prim, k + 1)

\* filterPrim: whether the primitive is baked out ("keep") or culled away.
\* owner is the document whose arrays hold the primitive's attributes.
filterPrim(h, owner, prim, fl) ==
    IF fl % 2 = FILTER_TRIANGLES /\ prim.type # "triangles" THEN "cull"
    ELSE LET attrs == FilterAttrs(h, owner, prim, 1)
         IN  IF attrs # "keep" THEN attrs
             ELSE IF IsNull(prim.indices) THEN "cull"
             ELSE IF IsWild(prim.indices) THEN "ub"
             ELSE IF h[prim.indices.d].accessors[prim.indices.i].is_sparse THEN "cull"
             ELSE "keep"

\* A variant that visits only the first primitive of each node's mesh.
NodePrimsFirstOnly(h, src) ==
    LET S == h[src]
    IN  Flat([i \in 1..Len(S.nodes) |->
                IF IsNull(S.nodes[i].mesh) THEN <<>>
                ELSE LET m == S.nodes[i].mesh
                         mesh == h[m.d].meshes[m.i]
                     IN  [j \in 1..Min2(1, mesh.primitives_count) |->
                            [sourceNode |-> i, sourceMesh |-> m,
                             sourcePrimitive |-> mesh.primitives + j - 1]]],
             Len(S.nodes))
\* A variant that visits only the nodes the default scene reaches, through
\* its node list and their children.
NodePrimsOfDefaultScene(h, src) ==
    LET S == h[src]
        listed == IF S.scene.d <= 0 THEN {}
                  ELSE LET sc == h[S.scene.d].scenes[S.scene.i]
                       IN  {S.nodePointers[sc.nodes + j - 1].i : j \in 1..sc.nodes_count}
        reach[n \in 0..Len(S.nodes)] ==
            IF n = 0 THEN listed
            ELSE reach[n - 1] \cup
                 UNION {{S.nodes[i].children[c].i : c \in 1..Len(S.nodes[i].children)} :
                            i \in reach[n - 1] \cap (1..Len(S.nodes))}
    IN  Flat([i \in 1..Len(S.nodes) |->
                IF IsNull(S.nodes[i].mesh) \/ i \notin reach[Len(S.nodes)] THEN <<>>
                ELSE LET m == S.nodes[i].mesh
                         mesh == h[m.d].meshes[m.i]
                     IN  [j \in 1..mesh.primitives_count |->
                            [sourceNode |-> i, sourceMesh |-> m,
                             sourcePrimitive |-> mesh.primitives + j - 1]]],
             Len(S.nodes))

\* The (node, primitive) pairs flattenPrims visits: the node array in index
\* order and, within each node's mesh, the primitives in index order.
NodePrims(h, src) ==
    LET S == h[src]
    IN  Flat([i \in 1..Len(S.nodes) |->
                IF IsNull(S.nodes[i].mesh) THEN <<>>
                ELSE LET m == S.nodes[i].mesh
                         mesh == h[m.d].meshes[m.i]
                     IN  [j \in 1..mesh.primitives_count |->
                            [sourceNode |-> i, sourceMesh |-> m,
                             sourcePrimitive |-> mesh.primitives + j - 1]]],
             Len(S.nodes))

\* The verdict of filterPrim on a visited pair.
Verdict(h, np, fl) ==
    filterPrim(h, np.sourceMesh.d, h[np.sourceMesh.d].prims[np.sourcePrimitive], fl)

\* Position (in the owner's attribute array) of the last attribute of the
\* given type of a primitive, 0 when it has none: the switch in the counting
\* loop overwrites sourcePositions / sourceNormals / sourceTangents.
LastAttr(h, owner, prim, type) ==
    LET hits == {k \in 1..prim.attributes_count :
                    h[owner].attributes[prim.attributes + k - 1].type = type}
    IN  IF hits = {} THEN 0
        ELSE prim.attributes + (CHOOSE k \in hits : \A m \in hits : m <= k) - 1

\* The sum of the accessor counts of all attributes of the given type of a
\* primitive, and their number.
AttrCounts(h, owner, prim, type) ==
    SumTo([k \in 1..prim.attributes_count |->
            LET a == h[owner].attributes[prim.attributes + k - 1]
            IN  IF a.type = type THEN h[a.data.d].accessors[a.data.i].count ELSE 0],
          prim.attributes_count)

AttrNumber(h, owner, prim, type) ==
    Cardinality({k \in 1..prim.attributes_count :
                    h[owner].attributes[prim.attributes + k - 1].type = type})

\* The BakedPrim structs of the kept pairs: the primitive and its last
\* POSITION, NORMAL and TANGENT attributes.
MakeBakedPrims(h, kept) ==
    Array([k \in 1..Len(kept) |->
            LET owner == kept[k].sourceMesh.d
                prim == h[owner].prims[kept[k].sourcePrimitive]
            IN  [sourceNode |-> kept[k].sourceNode,
                 sourceMesh |-> kept[k].sourceMesh,
                 owner |-> owner,
                 sourcePrimitive |-> kept[k].sourcePrimitive,
                 sourcePositions |-> LastAttr(h, owner, prim, "position"),
                 sourceNormals |-> LastAttr(h, owner, prim, "normal"),
                 sourceTangents |-> LastAttr(h, owner, prim, "tangent")]])

\* The BakedPrim structs: one per kept pair, in visiting order.  A pair whose
\* verdict is "ub" is dropped here: the caller decides what the call does.
BakedPrims(h, src, fl) ==
    MakeBakedPrims(h, SelectSeq(NodePrims(h, src), LAMBDA x : Verdict(h, x, fl) = "keep"))

\* Whether filterPrim reads through a garbage pointer on some visited pair.
FilterReadsGarbage(h, np, fl) == \E k \in 1..Len(np) : Verdict(h, np[k], fl) = "ub"

----------------------------------------------------------------------------
(* Pipeline::bakeTransform *)

\* std::numeric_limits<float>::max(), beyond every coordinate of the model.
FloatMax == 16777216

\* The accessor an attribute (by position in owner's attribute array) reads.
AttrAccessor(h, owner, a) ==
    LET data == h[owner].attributes[a].data IN h[data.d].accessors[data.i]

\* A variant that applies the linear part of the matrix only.
TransformPointLinear(M, pt) == [c \in 1..3 |-> M.s[c] * pt[c]]

\* (transform * float4(pt, 1)).xyz
TransformPoint(M, pt) == [c \in 1..3 |-> M.s[c] * pt[c] + M.t[c]]

\* normalMatrix * n with normalMatrix = transpose(inverse(upperLeft(M))); the
\* upper-left block is diagonal, so its inverse transpose divides by the scale.
TransformNormal(M, n) == [c \in 1..3 |-> n[c] \div M.s[c]]

\* The baked positions of a BakedPrim: each source vertex read as 3 floats,
\* then transformed.
BakePositions(h, bp, M) ==
    LET acc == AttrAccessor(h, bp.owner, bp.sourcePositions)
    IN  Array([index \in 1..acc.count |->
            TransformPoint(M, cgltf_accessor_read_float(h, acc, index - 1, 3))])

RECURSIVE FoldMinFromZero(_, _, _)
\* A variant whose running minimum starts from zero.
FoldMinFromZero(pts, n, c) ==
    IF n = 0 THEN 0 ELSE Min2(FoldMinFromZero(pts, n - 1, c), pts[n][c])

RECURSIVE FoldMin(_, _, _)
\* minpt after the first n points: min(minpt, pt) per component from FloatMax.
FoldMin(pts, n, c) ==
    IF n = 0 THEN FloatMax ELSE Min2(FoldMin(pts, n - 1, c), pts[n][c])

RECURSIVE FoldMax(_, _, _)
\* maxpt after the first n points, from numeric_limits<float>::lowest().
FoldMax(pts, n, c) ==
    IF n = 0 THEN -FloatMax ELSE Max2(FoldMax(pts, n - 1, c), pts[n][c])

BakedMin(pts) == [c \in 1..3 |-> FoldMin(pts, Len(pts), c)]

BakedMax(pts) == [c \in 1..3 |-> FoldMax(pts, Len(pts), c)]
\* A variant that reads every source index as a 16-bit value.
BakeIndicesAsU16(h, bp) ==
    LET ip == h[bp.owner].prims[bp.sourcePrimitive].indices
        acc == h[ip.d].accessors[ip.i]
    IN  Array([index \in 1..acc.count |->
            <<UIntValue(SubSeq(AccessorData(h, acc), ElementOffset(h, acc, index - 1) + 1,
                               ElementOffset(h, acc, index - 1) + 2), 2)>>])

\* The baked indices: every source index read as an unsigned integer.
BakeIndices(h, bp) ==
    LET ip == h[bp.owner].prims[bp.sourcePrimitive].indices
        acc == h[ip.d].accessors[ip.i]
    IN  Array([index \in 1..acc.count |-> <<cgltf_accessor_read_index(h, acc, index - 1)>>])

\* The baked normals (bp.sourceNormals # 0).
BakeNormals(h, bp, M) ==
    LET acc == AttrAccessor(h, bp.owner, bp.sourceNormals)
    IN  Array([index \in 1..acc.count |->
            TransformNormal(M, cgltf_accessor_read_float(h, acc, index - 1, 3))])

\* The baked tangents (bp.sourceTangents # 0): xyz transformed, w kept.
BakeTangents(h, bp, M) ==
    LET acc == AttrAccessor(h, bp.owner, bp.sourceTangents)
    IN  Array([index \in 1..acc.count |->
            LET t == cgltf_accessor_read_float(h, acc, index - 1, 4)
            IN  TransformNormal(M, <<t[1], t[2], t[3]>>) \o <<t[4]>>])

\* The bounding box of the transformed positions, with the positions.
BakedBounds(pts) == [bakedPositions |-> pts, bakedMin |-> BakedMin(pts), bakedMax |-> BakedMax(pts)]

\* bakeTransform(prim, transform, normalMatrix): everything baked for one
\* BakedPrim under the matrix M of its node.
bakeTransform(h, bp, M) ==
    BakedBounds(BakePositions(h, bp, M))
    @@ [bakedIndices |-> BakeIndices(h, bp),
        bakedNormals |-> IF bp.sourceNormals = 0 THEN <<>> ELSE BakeNormals(h, bp, M),
        bakedTangents |-> IF bp.sourceTangents = 0 THEN <<>> ELSE BakeTangents(h, bp, M)]

----------------------------------------------------------------------------
(* Pipeline::flattenPrims *)

Zeros(n) == [k \in 1..n |-> 0]

\* bytes, then the rest of a zero-initialised region of the given size
PadTo(bytes, size) == bytes \o Zeros(size - Len(bytes))

\* Value-initialised records, as ArrayHolder::alloc leaves them.
ZeroView == [buffer |-> Null, offset |-> 0, size |-> 0, stride |-> 0, type |-> "invalid"]

ZeroAccessor ==
    [component_type |-> "invalid", type |-> "invalid", offset |-> 0, count |-> 0,
     stride |-> 0, buffer_view |-> Null, is_sparse |-> FALSE,
     has_min |-> FALSE, has_max |-> FALSE, min |-> <<>>, max |-> <<>>]

ZeroAttr == [name |-> "", type |-> "invalid", index |-> 0, data |-> Null]

\* Number of j <= k for which has[j] holds.
Rank(has, k) == Cardinality({j \in 1..k : has[j]})

\* new_array + shift + (ptr - old_array)
RebaseShift(ptr, oldArr, newArr, shift, w) ==
    IF ptr.d = oldArr /\ ptr.d > 0 THEN [d |-> newArr, i |-> shift + ptr.i] ELSE Wild(w)

\* The topology flattenPrims gives an output primitive.
BakedPrimType(sourceType) == "triangles"

\* The attributes of a source primitive that are carried over by reference:
\* the ones that are neither POSITION, NORMAL nor TANGENT, in source order.
PassThrough(h, owner, prim) ==
    SelectSeq([k \in 1..prim.attributes_count |-> h[owner].attributes[prim.attributes + k - 1]],
              LAMBDA a : a.type \notin {"position", "normal", "tangent"})

\* The baking loop of flattenPrims: bakeTransform on every BakedPrim, under
\* the world matrix of its node.
BakeAll(h, src, bps) ==
    Array([k \in 1..Len(bps) |->
            bakeTransform(h, bps[k],
                WorldTransform(h, [d |-> src, i |-> bps[k].sourceNode],
                               Len(h[src].nodes)))])

\* The document flattenPrims builds from the BakedPrims bps of source src and
\* what was baked for them; it is allocated as document `new`, and sceneName
\* is what the read of sourceAsset->scene->name gave.
PopulateResult(h, src, new, bps, baked, sceneName, w) ==
    LET S == h[src]
        numPrims == Len(bps)
        ref(i) == [d |-> new, i |-> i]
        prim(k) == h[bps[k].owner].prims[bps[k].sourcePrimitive]
        hasN == [k \in 1..numPrims |-> bps[k].sourceNormals # 0]
        hasT == [k \in 1..numPrims |-> bps[k].sourceTangents # 0]
        posCount == [k \in 1..numPrims |-> Len(baked[k].bakedPositions)]
        nrmCount == [k \in 1..numPrims |-> Len(baked[k].bakedNormals)]
        tanCount == [k \in 1..numPrims |-> Len(baked[k].bakedTangents)]
        idxCount == [k \in 1..numPrims |-> Len(baked[k].bakedIndices)]
        total(type) ==
            SumTo([k \in 1..numPrims |-> AttrCounts(h, bps[k].owner, prim(k), type)],
                  numPrims)
        number(type) ==
            SumTo([k \in 1..numPrims |-> AttrNumber(h, bps[k].owner, prim(k), type)],
                  numPrims)
        numPrimsWithNormals == number("normal")
        numPrimsWithTangents == number("tangent")
        positionsDataSize == 12 * total("position")
        normalsDataSize == 12 * total("normal")
        tangentsDataSize == 16 * total("tangent")
        vertexDataSize == positionsDataSize + normalsDataSize + tangentsDataSize
        indexDataSize == 4 * SumTo(idxCount, numPrims)
        bufferData ==
            PadTo(Flat([k \in 1..numPrims |-> PackF32(baked[k].bakedPositions)], numPrims),
                  positionsDataSize)
            \o PadTo(Flat([k \in 1..numPrims |-> PackF32(baked[k].bakedNormals)], numPrims),
                     normalsDataSize)
            \o PadTo(Flat([k \in 1..numPrims |-> PackF32(baked[k].bakedTangents)], numPrims),
                     tangentsDataSize)
            \o Flat([k \in 1..numPrims |-> PackUInt(baked[k].bakedIndices, 4)], numPrims)
        numAttributesBaked == numPrims + numPrimsWithNormals + numPrimsWithTangents
        offset == numPrims + numAttributesBaked
        \* slots of the baked views and accessors
        indicesSlot(k) == k
        positionsSlot(k) == numPrims + k
        normalsSlot(k) == 2 * numPrims + Rank(hasN, k)
        tangentsSlot(k) == 2 * numPrims + numPrimsWithNormals + Rank(hasT, k)
        \* the prim a normals / tangents slot r belongs to, 0 when none wrote it
        primOfRank(has, r) ==
            IF \E k \in 1..numPrims : has[k] /\ Rank(has, k) = r
            THEN CHOOSE k \in 1..numPrims : has[k] /\ Rank(has, k) = r
            ELSE 0
        indicesOffset(k) == vertexDataSize + 4 * SumTo(idxCount, k - 1)
        positionsOffset(k) == 12 * SumTo(posCount, k - 1)
        normalsOffset(k) == positionsDataSize + 12 * SumTo(nrmCount, k - 1)
        tangentsOffset(k) ==
            positionsDataSize + normalsDataSize + 16 * SumTo(tanCount, k - 1)
        bakedView(off, size) ==
            [ZeroView EXCEPT !.buffer = ref(1), !.offset = off, !.size = size]
        indicesAccessor(k) ==
            [ZeroAccessor EXCEPT !.component_type = "r_32u", !.type = "scalar",
                                 !.count = idxCount[k], !.stride = 4,
                                 !.buffer_view = ref(indicesSlot(k))]
        positionsAccessor(k) ==
            [ZeroAccessor EXCEPT !.component_type = "r_32f", !.type = "vec3",
                                 !.count = posCount[k], !.stride = 12,
                                 !.buffer_view = ref(positionsSlot(k)),
                                 !.has_min = TRUE, !.has_max = TRUE,
                                 !.min = baked[k].bakedMin, !.max = baked[k].bakedMax]
        normalsAccessor(k) ==
            [ZeroAccessor EXCEPT !.component_type = "r_32f", !.type = "vec3",
                                 !.count = nrmCount[k], !.stride = 12,
                                 !.buffer_view = ref(normalsSlot(k))]
        tangentsAccessor(k) ==
            [ZeroAccessor EXCEPT !.component_type = "r_32f", !.type = "vec4",
                                 !.count = tanCount[k], !.stride = 16,
                                 !.buffer_view = ref(tangentsSlot(k))]
        attr(name, type, data) == [ZeroAttr EXCEPT !.name = name, !.type = type, !.data = data]
        written ==
            Array([k \in 1..numPrims |->
                <<attr(POSITION, "position", ref(positionsSlot(k)))>>
                \o (IF hasN[k] THEN <<attr(NORMAL, "normal", ref(normalsSlot(k)))>> ELSE <<>>)
                \o (IF hasT[k] THEN <<attr(TANGENT, "tangent", ref(tangentsSlot(k)))>>
                    ELSE <<>>)
                \o LET pass == PassThrough(h, bps[k].owner, prim(k))
                   IN  [j \in 1..Len(pass) |->
                            [pass[j] EXCEPT
                                !.data = RebaseShift(pass[j].data, src, new, offset, w)]]])
        attrIndex == SumTo([k \in 1..numPrims |-> Len(written[k])], numPrims)
        numAttributes ==
            SumTo([k \in 1..numPrims |-> prim(k).attributes_count], numPrims)
    IN  [attrIndex |-> attrIndex,
         numAttributes |-> numAttributes,
         doc |->
          [buffers |-> <<[size |-> vertexDataSize + indexDataSize, data |-> bufferData,
                          uri |-> ""],
                         S.buffers[1]>>,
           buffer_views |->
              [k \in 1..numPrims |-> bakedView(indicesOffset(k), idxCount[k] * 4)]
              \o [k \in 1..numPrims |-> bakedView(positionsOffset(k), posCount[k] * 12)]
              \o [r \in 1..numPrimsWithNormals |->
                    LET k == primOfRank(hasN, r)
                    IN  IF k = 0 THEN ZeroView
                        ELSE bakedView(normalsOffset(k), nrmCount[k] * 12)]
              \o [r \in 1..numPrimsWithTangents |->
                    LET k == primOfRank(hasT, r)
                    IN  IF k = 0 THEN ZeroView
                        ELSE bakedView(tangentsOffset(k), tanCount[k] * 16)]
              \o [i \in 1..Len(S.buffer_views) |->
                    [S.buffer_views[i] EXCEPT !.buffer = ref(2)]],
           accessors |->
              [k \in 1..numPrims |-> indicesAccessor(k)]
              \o [k \in 1..numPrims |-> positionsAccessor(k)]
              \o [r \in 1..numPrimsWithNormals |->
                    LET k == primOfRank(hasN, r)
                    IN  IF k = 0 THEN ZeroAccessor ELSE normalsAccessor(k)]
              \o [r \in 1..numPrimsWithTangents |->
                    LET k == primOfRank(hasT, r)
                    IN  IF k = 0 THEN ZeroAccessor ELSE tangentsAccessor(k)]
              \o [i \in 1..Len(S.accessors) |->
                    [S.accessors[i] EXCEPT
                        !.buffer_view =
                            RebaseShift(S.accessors[i].buffer_view, src, new, offset, w)]],
           images |->
              [i \in 1..Len(Images(h, src)) |->
                  [Images(h, src)[i] EXCEPT
                      !.buffer_view =
                          IF IsNull(Images(h, src)[i].buffer_view) THEN Null
                          ELSE RebaseShift(Images(h, src)[i].buffer_view,
                                           src, new, offset, w)]],
           imagesAt |-> new,
           textures |-> <<>>,
           texturesAt |-> S.texturesAt,
           materials |-> <<>>,
           materialsAt |-> S.materialsAt,
           meshes |->
              [k \in 1..numPrims |->
                  [name |-> h[bps[k].sourceMesh.d].meshes[bps[k].sourceMesh.i].name,
                   primitives |-> k, primitives_count |-> 1]],
           prims |->
              [k \in 1..numPrims |->
                  [type |-> BakedPrimType(prim(k).type),
                   indices |-> ref(indicesSlot(k)),
                   material |-> prim(k).material,
                   attributes |-> 1 + SumTo([j \in 1..numPrims |-> Len(written[j])], k - 1),
                   attributes_count |-> prim(k).attributes_count]],
           attributes |->
              LET all == Flat(written, numPrims)
              IN  IF Len(all) < numAttributes
                  THEN all \o [j \in 1..(numAttributes - Len(all)) |-> ZeroAttr]
                  ELSE all,
           nodes |->
              [k \in 1..numPrims |->
                  [name |-> S.nodes[bps[k].sourceNode].name,
                   mesh |-> ref(k), parent |-> Null, children |-> <<>>,
                   has_translation |-> FALSE, translation |-> <<0, 0, 0>>,
                   has_scale |-> FALSE, scale |-> <<0, 0, 0>>]],
           scenes |-> <<[name |-> sceneName, nodes |-> 1, nodes_count |-> numPrims]>>,
           nodePointers |-> [k \in 1..numPrims |-> ref(k)],
           scene |-> ref(1),
           generator |-> GENERATOR_ID]]

\* Everything flattenPrims computes once the BakedPrims are known.
FlattenPrimsResult(h, src, new, bps, sceneName, w) ==
    PopulateResult(h, src, new, bps, BakeAll(h, src, bps), sceneName, w)

\* The textures of the source after the last loop of flattenPrims: the result
\* shares the source's texture array, and the loop stores the rebased image
\* pointers into it.
FixupTextures(h, src, new, w) ==
    LET at == h[src].texturesAt
    IN  [h EXCEPT ![at].textures =
            [i \in 1..Len(h[at].textures) |->
                [h[at].textures[i] EXCEPT
                    !.image = Rebase(h[at].textures[i].image, h[src].imagesAt, new, w)]]]

\* The end of flattenPrims, once the result R is populated: the assertion on
\* the attribute count (compiled out when nd), the read of the default scene's
\* name, the texture loop.
FlattenPrimsEnd(h, src, u, w, R, nd) ==
    IF ~nd /\ R.attrIndex # R.numAttributes THEN [status |-> "assert", heap |-> h]
    ELSE IF IsNull(h[src].scene) \/ (IsWild(h[src].scene) /\ u = "fault")
        THEN [status |-> "crash", heap |-> h]
    ELSE [status |-> "ok", heap |-> Append(FixupTextures(h, src, Len(h) + 1, w), R.doc)]

\* What sourceAsset->scene->name reads.
SceneName(h, src) ==
    IF h[src].scene.d > 0 THEN h[h[src].scene.d].scenes[h[src].scene.i].name
    ELSE "garbage"

\* flattenPrims from the sizing of the baked buffer on: a BakedPrim without
\* POSITION makes sourcePositions->data a null dereference.
FlattenPrimsBake(h, src, u, w, bps, nd) ==
    IF \E k \in 1..Len(bps) : bps[k].sourcePositions = 0
    THEN [status |-> "crash", heap |-> h]
    ELSE FlattenPrimsEnd(h, src, u, w,
            FlattenPrimsResult(h, src, Len(h) + 1, bps, SceneName(h, src), w), nd)

\* flattenPrims(sourceAsset, flags): the heap after the call and how the call
\* ended: "ok" (the new document is the last of the heap), "assert" (an
\* assertion failed) or "crash" (a null or trapping garbage dereference).
\* w is the garbage address and u the outcome of garbage reads of this call.
\* The two assertions on the buffer list are the only test of it: when nd they
\* expand to nothing and the function goes on with whatever buffers[0] is; of
\* an empty buffer list it is a read through the null buffers pointer.
flattenPrims(h, src, fl, w, u, nd) ==
    IF ~nd /\ Len(h[src].buffers) # 1 THEN [status |-> "assert", heap |-> h]
    ELSE IF Len(h[src].buffers) = 0 THEN [status |-> "crash", heap |-> h]
    ELSE IF u = "fault" /\ FilterReadsGarbage(h, NodePrims(h, src), fl)
        THEN [status |-> "crash", heap |-> h]
    ELSE FlattenPrimsBake(h, src, u, w, BakedPrims(h, src, fl), nd)

----------------------------------------------------------------------------
(* isFlattened, Pipeline::cgltfToXatlas and the atlas builder (xatlas) *)

BAKED_UV_ATTRIB == "TEXCOORD_4"

BAKED_UV_ATTRIB_INDEX == 4

\* isFlattened(asset) for asset handle a (0 is the null handle): "yes", "no",
\* or "crash" when strcmp reads through the null generator pointer.  The
\* conjunction is evaluated left to right and stops at the first false.
isFlattened(h, a) ==
    IF a = 0 THEN "no"
    ELSE IF Len(h[a].buffers) # 1 THEN "no"
    ELSE IF Len(h[a].nodes) # Len(h[a].meshes) THEN "no"
    ELSE IF h[a].generator = "" THEN "crash"
    ELSE IF h[a].generator = GENERATOR_ID THEN "yes" ELSE "no"

\* One call on the atlas builder; mesh is the mesh an AddMesh submits and
\* error whether the call reported an error.
AtlasCall(fn, mesh) == [fn |-> fn, mesh |-> mesh, error |-> FALSE]

\* An AddMesh call that reported an error.
AddMeshError(mesh) == [fn |-> "AddMesh", mesh |-> mesh, error |-> TRUE]

\* sourceAsset->meshes[meshIndex].primitives[0]
FirstPrim(S, meshIndex) == S.prims[S.meshes[meshIndex].primitives]

\* The attribute cgltfToXatlas picks for a semantic: the last attribute of
\* the primitive with set index 0, an accessor with a buffer view and fp32
\* components, and that semantic; 0 when there is none.
XatlasAttr(h, S, prim, type) ==
    LET hits == {k \in 1..prim.attributes_count :
                    LET attr == S.attributes[prim.attributes + k - 1]
                    IN  /\ attr.index = 0
                        /\ attr.data.d > 0
                        /\ ~IsNull(h[attr.data.d].accessors[attr.data.i].buffer_view)
                        /\ h[attr.data.d].accessors[attr.data.i].component_type = "r_32f"
                        /\ attr.type = type}
    IN  IF hits = {} THEN 0
        ELSE prim.attributes + (CHOOSE k \in hits : \A m \in hits : m <= k) - 1

\* The MeshDecl of a mesh: the counts xatlas is given.  vertexCount is 0 - 1
\* when the declaration cannot be built: positions->data with no positions
\* picked, or accessor->offset with no indices, is a null dereference, and
\* attr.data->buffer_view through a garbage pointer is no better.
MeshDecl(h, S, meshIndex) ==
    LET prim == FirstPrim(S, meshIndex)
        positions == XatlasAttr(h, S, prim, "position")
        wild == \E k \in 1..prim.attributes_count :
                    IsWild(S.attributes[prim.attributes + k - 1].data)
    IN  IF wild \/ positions = 0 \/ prim.indices.d <= 0
        THEN [vertexCount |-> -1, indexCount |-> 0]
        ELSE [vertexCount |->
                h[S.attributes[positions].data.d]
                    .accessors[S.attributes[positions].data.i].count,
              indexCount |-> h[prim.indices.d].accessors[prim.indices.i].count]

RECURSIVE cgltfToXatlasKeepsGoing(_, _, _, _)
\* A variant that reports a failed AddMesh and goes on with the next mesh.
cgltfToXatlasKeepsGoing(h, S, meshIndex, failAt) ==
    IF meshIndex > Len(S.meshes) THEN [status |-> "ok", calls |-> <<>>, slog |-> <<>>]
    ELSE IF MeshDecl(h, S, meshIndex).vertexCount < 0
        THEN [status |-> "crash", calls |-> <<>>, slog |-> <<>>]
    ELSE LET rest == cgltfToXatlasKeepsGoing(h, S, meshIndex + 1, failAt)
         IN  IF meshIndex = failAt
             THEN [status |-> IF rest.status = "crash" THEN "crash" ELSE "failed",
                   calls |-> <<AddMeshError(meshIndex)>> \o rest.calls,
                   slog |-> <<"Error parameterizing " \o S.meshes[meshIndex].name>>
                            \o rest.slog]
             ELSE [rest EXCEPT !.calls = <<AtlasCall("AddMesh", meshIndex)>> \o @]

RECURSIVE cgltfToXatlas(_, _, _, _)
\* cgltfToXatlas from mesh meshIndex on: the AddMesh calls made, the messages
\* written and how the loop ended: "ok" (true), "failed" (false) or "crash".
\* failAt is the mesh xatlas::AddMesh reports an error for, 0 for none.
cgltfToXatlas(h, S, meshIndex, failAt) ==
    IF meshIndex > Len(S.meshes) THEN [status |-> "ok", calls |-> <<>>, slog |-> <<>>]
    ELSE IF MeshDecl(h, S, meshIndex).vertexCount < 0
        THEN [status |-> "crash", calls |-> <<>>, slog |-> <<>>]
    ELSE IF meshIndex = failAt
        THEN [status |-> "failed", calls |-> <<AddMeshError(meshIndex)>>,
              slog |-> <<"Error parameterizing " \o S.meshes[meshIndex].name>>]
    ELSE LET rest == cgltfToXatlas(h, S, meshIndex + 1, failAt)
         IN  [rest EXCEPT !.calls = <<AtlasCall("AddMesh", meshIndex)>> \o @]

\* The shapes of the result xatlas reports for a mesh.
AtlasShapes == {"plain", "split"}

\* What the atlas reports for a mesh declared with vertexCount vertices and
\* indexCount indices.  "plain": as many vertices, each from another source
\* vertex; "split": one more vertex, cut from source vertex 0 and used by
\* the last index.
AtlasMesh(shape, vertexCount, indexCount) ==
    LET plain == [j \in 1..vertexCount |-> [xref |-> vertexCount - j, uv |-> <<j, 2>>]]
        seam == IF shape = "split" THEN <<[xref |-> 0, uv |-> <<9, 3>>]>> ELSE <<>>
    IN  [vertexArray |-> plain \o seam,
         vertexCount |-> vertexCount + Len(seam),
         indexArray |->
            [k \in 1..indexCount |->
                IF shape = "split" /\ k = indexCount THEN vertexCount
                ELSE IF vertexCount = 0 THEN 0 ELSE (k - 1) % vertexCount],
         indexCount |-> indexCount]

\* atlas->meshes after PackCharts: one result per mesh added.
Atlas(h, S, shape) ==
    Array([i \in 1..Len(S.meshes) |->
            AtlasMesh(shape, MeshDecl(h, S, i).vertexCount, MeshDecl(h, S, i).indexCount)])

----------------------------------------------------------------------------
(* Pipeline::xatlasToCgltf and Pipeline::parameterize *)

\* The accessors of the attributes of a primitive, in attribute order.
PrimAccessors(h, S, prim) ==
    [ai \in 1..prim.attributes_count |->
        LET data == S.attributes[prim.attributes + ai - 1].data
        IN  h[data.d].accessors[data.i]]
\* A variant that leaves the two UV floats out of the vertex size.
FloatsPerVertSourceOnly(accs) ==
    SumTo([ai \in 1..Len(accs) |-> getNumFloats(accs[ai].type)], Len(accs))

\* floatsPerVert: the float widths of the source attributes, plus the two UVs.
FloatsPerVert(accs) ==
    SumTo([ai \in 1..Len(accs) |-> getNumFloats(accs[ai].type)], Len(accs)) + 2

\* A variant that reads the source vertex at the new vertex's own position
\* instead of at its xref.
InterleaveVertexInPlace(h, accs, atlasVertex, j) ==
    Flat([ai \in 1..Len(accs) |->
            cgltf_accessor_read_float(h, accs[ai], j - 1, getNumFloats(accs[ai].type))],
         Len(accs))
    \o atlasVertex.uv

\* The floats written for new vertex j (1-based) of a mesh: every source
\* attribute read at the vertex's xref and converted to float, then the UVs.
InterleaveVertex(h, accs, atlasVertex, j) ==
    Flat([ai \in 1..Len(accs) |->
            cgltf_accessor_read_float(h, accs[ai], atlasVertex.xref,
                                      getNumFloats(accs[ai].type))],
         Len(accs))
    \o atlasVertex.uv

\* A variant that places the baked UVs at the start of the vertex.
UvOffsetAtStart(accs) == 0

\* Byte offset of the baked UVs within a vertex: after every source attribute.
UvOffset(accs) ==
    4 * SumTo([ai \in 1..Len(accs) |-> getNumFloats(accs[ai].type)], Len(accs))

\* The document xatlasToCgltf builds for source src from the atlas results;
\* it is allocated as document `new`.
XatlasResult(h, src, atlas, new, w) ==
    LET S == h[src]
        numPrims == Len(atlas)
        ref(i) == [d |-> new, i |-> i]
        sourcePrim == [i \in 1..numPrims |-> FirstPrim(S, i)]
        accs == Array([i \in 1..numPrims |-> PrimAccessors(h, S, sourcePrim[i])])
        attrCount == [i \in 1..numPrims |-> sourcePrim[i].attributes_count]
        stride == [i \in 1..numPrims |-> 4 * FloatsPerVert(accs[i])]
        vertexSize == [i \in 1..numPrims |-> atlas[i].vertexCount * stride[i]]
        indexSize == [i \in 1..numPrims |-> atlas[i].indexCount * 4]
        numFloats == SumTo(vertexSize, numPrims) \div 4
        numIndices == SumTo(indexSize, numPrims) \div 4
        resultBufferSize == 4 * (numIndices + numFloats)
        vertexData ==
            Flat([i \in 1..numPrims |->
                    PackF32([j \in 1..atlas[i].vertexCount |->
                                InterleaveVertex(h, accs[i], atlas[i].vertexArray[j], j)])],
                 numPrims)
        indexData ==
            Flat([i \in 1..numPrims |-> PackUInt(<<atlas[i].indexArray>>, 4)], numPrims)
        \* first accessor / attribute slot of prim i
        firstAccessor(i) == SumTo(attrCount, i - 1) + 2 * (i - 1) + 1
        firstAttribute(i) == SumTo(attrCount, i - 1) + (i - 1) + 1
        offsetOf(i, ai) ==
            4 * SumTo([a \in 1..attrCount[i] |-> getNumFloats(accs[i][a].type)], ai - 1)
        sceneSizes == [i \in 1..Len(S.scenes) |-> S.scenes[i].nodes_count]
        numNodePointers == SumTo(sceneSizes, Len(S.scenes))
        \* every scene writes its node pointers from the start of nodePointers
        writers(j) == {i \in 1..Len(S.scenes) : j <= S.scenes[i].nodes_count}
        lastWriter(j) == CHOOSE i \in writers(j) : \A k \in writers(j) : k <= i
    IN  [buffers |-> <<[size |-> resultBufferSize, data |-> vertexData \o indexData,
                        uri |-> ""]>>,
         buffer_views |->
            Flat([i \in 1..numPrims |->
                    <<[buffer |-> ref(1), offset |-> SumTo(vertexSize, i - 1),
                       size |-> vertexSize[i], stride |-> stride[i], type |-> "vertices"],
                      [buffer |-> ref(1),
                       offset |-> 4 * numFloats + SumTo(indexSize, i - 1),
                       size |-> indexSize[i], stride |-> 0, type |-> "indices"]>>],
                 numPrims),
         accessors |->
            Flat([i \in 1..numPrims |->
                    [ai \in 1..attrCount[i] |->
                        [ZeroAccessor EXCEPT
                            !.component_type = "r_32f", !.type = accs[i][ai].type,
                            !.offset = offsetOf(i, ai), !.count = atlas[i].vertexCount,
                            !.stride = stride[i], !.buffer_view = ref(2 * i - 1),
                            !.has_min = accs[i][ai].has_min,
                            !.has_max = accs[i][ai].has_max,
                            !.min = IF accs[i][ai].has_min THEN accs[i][ai].min ELSE <<>>,
                            !.max = IF accs[i][ai].has_max THEN accs[i][ai].max ELSE <<>>]]
                    \o <<[ZeroAccessor EXCEPT
                            !.component_type = "r_32f", !.type = "vec2",
                            !.offset = UvOffset(accs[i]), !.count = atlas[i].vertexCount,
                            !.stride = stride[i], !.buffer_view = ref(2 * i - 1)],
                         [ZeroAccessor EXCEPT
                            !.component_type = "r_32u", !.type = "scalar",
                            !.count = atlas[i].indexCount, !.stride = 4,
                            !.buffer_view = ref(2 * i)]>>],
                 numPrims),
         images |-> <<>>,
         imagesAt |-> S.imagesAt,
         textures |-> <<>>,
         texturesAt |-> S.texturesAt,
         materials |-> <<>>,
         materialsAt |-> S.materialsAt,
         meshes |-> [i \in 1..numPrims |-> [S.meshes[i] EXCEPT !.primitives = i]],
         prims |->
            [i \in 1..numPrims |->
                [sourcePrim[i] EXCEPT
                    !.attributes = firstAttribute(i),
                    !.attributes_count = attrCount[i] + 1,
                    !.indices = ref(firstAccessor(i) + attrCount[i] + 1)]],
         attributes |->
            Flat([i \in 1..numPrims |->
                    [ai \in 1..attrCount[i] |->
                        LET sourceAttrib == S.attributes[sourcePrim[i].attributes + ai - 1]
                        IN  [name |-> sourceAttrib.name, type |-> sourceAttrib.type,
                             index |-> sourceAttrib.index,
                             data |-> ref(firstAccessor(i) + ai - 1)]]
                    \o <<[name |-> BAKED_UV_ATTRIB, type |-> "texcoord",
                          index |-> BAKED_UV_ATTRIB_INDEX,
                          data |-> ref(firstAccessor(i) + attrCount[i])]>>],
                 numPrims),
         nodes |-> [i \in 1..numPrims |-> [S.nodes[i] EXCEPT !.mesh = ref(i)]],
         scenes |-> [i \in 1..Len(S.scenes) |-> [S.scenes[i] EXCEPT !.nodes = 1]],
         nodePointers |->
            [j \in 1..numNodePointers |->
                IF writers(j) = {} THEN Null
                ELSE Rebase(S.nodePointers[S.scenes[lastWriter(j)].nodes + j - 1],
                            src, new, w)],
         scene |-> Rebase(S.scene, src, new, w),
         generator |-> S.generator]

\* xatlasToCgltf(source, atlas): the heap and the messages after the call;
\* ret is the new document, 0 when the call returns nullptr.
xatlasToCgltf(h, src, atlas, w) ==
    IF Len(h[src].buffers) # 1
    THEN [heap |-> h, ret |-> 0,
          slog |-> <<"Parameterization requires a valid flattened asset.">>]
    ELSE IF Len(atlas) # Len(h[src].meshes)
    THEN [heap |-> h, ret |-> 0, slog |-> <<"Unexpected mesh count.">>]
    ELSE [heap |-> Append(h, XatlasResult(h, src, atlas, Len(h) + 1, w)),
          ret |-> Len(h) + 1, slog |-> <<>>]

\* A variant that packs the charts before they are parameterized.
ChartCallsPackFirst ==
    <<AtlasCall("ComputeCharts", 0), AtlasCall("PackCharts", 0),
      AtlasCall("ParameterizeCharts", 0), AtlasCall("read", 0), AtlasCall("Destroy", 0)>>

\* The calls parameterize makes on the atlas once every mesh is added, around
\* the conversion of the results.
ChartCalls ==
    <<AtlasCall("ComputeCharts", 0), AtlasCall("ParameterizeCharts", 0),
      AtlasCall("PackCharts", 0), AtlasCall("read", 0), AtlasCall("Destroy", 0)>>

\* Whether the first primitive of some mesh has an attribute without an
\* accessor: xatlasToCgltf reads attributes[ai].data->type of every one.
NullAttrData(S) ==
    \E i \in 1..Len(S.meshes) :
        \E ai \in 1..FirstPrim(S, i).attributes_count :
            S.attributes[FirstPrim(S, i).attributes + ai - 1].data.d <= 0

\* parameterize once the atlas is created and the meshes are submitted with
\* outcome added.
ParameterizeRest(h, src, added, shape, w) ==
    IF added.status = "crash"
    THEN [status |-> "crash", heap |-> h, ret |-> 0, slog |-> added.slog,
          xatlas |-> <<AtlasCall("Create", 0)>> \o added.calls, atlas |-> <<>>]
    ELSE IF added.status = "failed"
    THEN [status |-> "ok", heap |-> h, ret |-> 0, slog |-> added.slog,
          xatlas |-> <<AtlasCall("Create", 0)>> \o added.calls, atlas |-> <<>>]
    ELSE IF NullAttrData(h[src])
    THEN [status |-> "crash", heap |-> h, ret |-> 0, slog |-> <<>>,
          xatlas |-> <<AtlasCall("Create", 0)>> \o added.calls
                     \o SubSeq(ChartCalls, 1, 4),
          atlas |-> Atlas(h, h[src], shape)]
    ELSE xatlasToCgltf(h, src, Atlas(h, h[src], shape), w)
         @@ [status |-> "ok", xatlas |-> <<AtlasCall("Create", 0)>> \o added.calls \o ChartCalls,
             atlas |-> Atlas(h, h[src], shape)]

\* Pipeline::parameterize(sourceAsset): the heap after the call, the handle
\* returned (0 for nullptr), the messages written, the calls made on the
\* atlas, the meshes the atlas reported, and whether the call returned ("ok") or the process died ("crash").
parameterize(h, src, failAt, shape, w) ==
    IF isFlattened(h, src) = "crash"
    THEN [status |-> "crash", heap |-> h, ret |-> 0, slog |-> <<>>, xatlas |-> <<>>,
          atlas |-> <<>>]
    ELSE IF isFlattened(h, src) = "no"
    THEN [status |-> "ok", heap |-> h, ret |-> 0,
          slog |-> <<"Only flattened assets can be parameterized.">>, xatlas |-> <<>>,
          atlas |-> <<>>]
    ELSE ParameterizeRest(h, src, cgltfToXatlas(h, h[src], 1, failAt), shape, w)

----------------------------------------------------------------------------
(* AssetPipeline::save and Pipeline::~Pipeline *)

\* The URI of the single buffer as cgltf_write_file sees it while it writes
\* the JSON: save has just stored the binary file's name there.
SaveJsonUri(h, handle, binName) ==
    [h EXCEPT ![handle].buffers[1].uri = binName][handle].buffers[1].uri

\* AssetPipeline::save(handle, jsonPath, binPath): the heap and the files
\* after the call, the messages written, and how the call ended.  fs is the
\* sequence of files written before the call.
save(h, handle, fs, jsonPath, binName) ==
    IF isFlattened(h, handle) = "crash"
    THEN [status |-> "crash", heap |-> h, files |-> fs, slog |-> <<>>]
    ELSE IF isFlattened(h, handle) = "no"
    THEN [status |-> "ok", heap |-> h, files |-> fs,
          slog |-> <<"Only flattened assets can be exported to disk.">>]
    ELSE [status |-> "ok",
          heap |-> [h EXCEPT ![handle].buffers[1].uri = ""],
          files |-> fs \o <<[path |-> jsonPath, asset |-> handle,
                             uri |-> SaveJsonUri(h, handle, binName), bytes |-> <<>>],
                            [path |-> binName, asset |-> handle, uri |-> "",
                             bytes |-> SubSeq(h[handle].buffers[1].data, 1,
                                              h[handle].buffers[1].size)]>>,
          slog |-> <<>>]

\* A variant of the teardown that leaves the source assets to their owner.
FreeNothing(m) == <<>>

\* ~Pipeline: cgltf_free is called on every registered source asset, in
\* registration order.
FreeSourceAssets(m) == m.mSourceAssets

----------------------------------------------------------------------------
(* The pipeline as a state machine. *)

\* A record of the last call.  pre is the handle flatten passes to
\* flattenPrims and mid the handle flattenPrims returns to it (0 when absent).
Call(op, arg, pre, mid, ret, status) ==
    [op |-> op, arg |-> arg, pre |-> pre, mid |-> mid, ret |-> ret, status |-> status]

\* The paths the caller passes to save.
JsonPath == "out.gltf"
BinName == "out.bin"

\* AssetPipeline::AssetPipeline: a pipeline with nothing loaded.
Init ==
    /\ heap = <<>>
    /\ handles = {}
    /\ flags \in {0, FILTER_TRIANGLES}
    /\ calls = 0
    /\ last = Call("new", 0, 0, 0, 0, "ok")
    /\ ndebug \in BOOLEAN
    /\ mem = [alive |-> TRUE, mSourceAssets |-> <<>>, mStorage |-> {}, freed |-> <<>>]
    /\ slog = <<>>
    /\ xatlas = <<>>
    /\ atlasMeshes = <<>>
    /\ files = <<>>

\* mStorage after a stage turned heap h0 into h1: every document added to the
\* heap was allocated from the ArrayHolders, which only ever grow.
Stored(m, h0, h1) == [m EXCEPT !.mStorage = @ \cup (Len(h0) + 1..Len(h1))]

\* AssetPipeline::load: the parsed document is registered with the pipeline
\* and returned.
Load(o) ==
    /\ heap = <<>>
    /\ mem.alive
    /\ heap' = <<SourceDoc(o)>>
    /\ handles' = {1}
    /\ last' = Call("load", 0, 0, 0, 1, "ok")
    /\ mem' = [mem EXCEPT !.mSourceAssets = Append(@, 1)]
    /\ slog' = <<>>
    /\ xatlas' = <<>>
    /\ atlasMeshes' = <<>>
    /\ UNCHANGED <<flags, calls, ndebug, files>>

\* A stage may be called while the process and the pipeline are alive.
CanCall == last.status = "ok" /\ calls < MaxCalls /\ mem.alive

\* Pipeline::flattenBuffers(source); u is the outcome of a read outside the
\* offsets vector.
FlattenBuffers(source, w, u) ==
    /\ CanCall
    /\ IF u = "fault" /\ OffsetsReadOutside(heap, source)
       THEN /\ heap' = heap
            /\ handles' = handles
            /\ last' = Call("flattenBuffers", source, 0, 0, 0, "crash")
       ELSE /\ heap' = Append(heap, flattenBuffers(heap, source, Len(heap) + 1, w))
            /\ handles' = handles \cup {Len(heap) + 1}
            /\ last' = Call("flattenBuffers", source, 0, 0, Len(heap) + 1, "ok")
    /\ calls' = calls + 1
    /\ mem' = Stored(mem, heap, heap')
    /\ slog' = <<>>
    /\ xatlas' = <<>>
    /\ atlasMeshes' = <<>>
    /\ UNCHANGED <<flags, ndebug, files>>

\* Pipeline::flattenPrims(source, flags)
FlattenPrims(source, w, u) ==
    /\ CanCall
    /\ \E r \in {flattenPrims(heap, source, flags, w, u, ndebug)} :
        /\ heap' = r.heap
        /\ handles' = IF r.status = "ok" THEN handles \cup {Len(r.heap)} ELSE handles
        /\ last' = Call("flattenPrims", source, source,
                        IF r.status = "ok" THEN Len(r.heap) ELSE 0,
                        IF r.status = "ok" THEN Len(r.heap) ELSE 0, r.status)
    /\ calls' = calls + 1
    /\ mem' = Stored(mem, heap, heap')
    /\ slog' = <<>>
    /\ xatlas' = <<>>
    /\ atlasMeshes' = <<>>
    /\ UNCHANGED <<flags, ndebug, files>>

\* The last step of flatten: flattenBuffers on what flattenPrims returned.
\* pre is the asset flattenPrims was given.
FlattenTail(r, pre, w, u) ==
    IF r.status = "ok" /\ u = "fault" /\ OffsetsReadOutside(r.heap, Len(r.heap))
    THEN [heap |-> r.heap, pre |-> pre, mid |-> Len(r.heap), ret |-> 0, status |-> "crash"]
    ELSE IF r.status = "ok"
    THEN [heap |-> Append(r.heap, flattenBuffers(r.heap, Len(r.heap), Len(r.heap) + 1, w)),
          pre |-> pre, mid |-> Len(r.heap), ret |-> Len(r.heap) + 1, status |-> "ok"]
    ELSE [heap |-> r.heap, pre |-> pre, mid |-> 0, ret |-> 0, status |-> r.status]

\* flatten from the flattenPrims call on, for a single-buffer asset.
FlattenSingle(h, asset, fl, w, u, nd) ==
    FlattenTail(flattenPrims(h, asset, fl, w, u, nd), asset, w, u)
\* A variant of flatten that always aggregates the buffers first.
flattenAlwaysAggregates(h, source, fl, w, u, nd) ==
    FlattenSingle(Append(h, flattenBuffers(h, source, Len(h) + 1, w)), Len(h) + 1,
                  fl, w, u, nd)

\* The heap and the outcome of AssetPipeline::flatten(source, flags).
flatten(h, source, fl, w, u, nd) ==
    IF Len(h[source].buffers) > 1 /\ u = "fault" /\ OffsetsReadOutside(h, source)
    THEN [heap |-> h, pre |-> source, mid |-> 0, ret |-> 0, status |-> "crash"]
    ELSE FlattenSingle(
        IF Len(h[source].buffers) > 1
        THEN Append(h, flattenBuffers(h, source, Len(h) + 1, w)) ELSE h,
        IF Len(h[source].buffers) > 1 THEN Len(h) + 1 ELSE source,
        fl, w, u, nd)

\* AssetPipeline::flatten(source, flags)
Flatten(source, w, u) ==
    /\ CanCall
    /\ \E r \in {flatten(heap, source, flags, w, u, ndebug)} :
        /\ heap' = r.heap
        /\ handles' = IF r.ret = 0 THEN handles ELSE handles \cup {r.ret}
        /\ last' = Call("flatten", source, r.pre, r.mid, r.ret, r.status)
    /\ calls' = calls + 1
    /\ mem' = Stored(mem, heap, heap')
    /\ slog' = <<>>
    /\ xatlas' = <<>>
    /\ atlasMeshes' = <<>>
    /\ UNCHANGED <<flags, ndebug, files>>

\* AssetPipeline::parameterize(source); source may be the null handle.
Parameterize(source, failAt, shape, w) ==
    /\ CanCall
    /\ \E r \in {parameterize(heap, source, failAt, shape, w)} :
        /\ heap' = r.heap
        /\ handles' = IF r.ret = 0 THEN handles ELSE handles \cup {r.ret}
        /\ last' = Call("parameterize", source, 0, 0, r.ret, r.status)
        /\ slog' = r.slog
        /\ xatlas' = r.xatlas
        /\ atlasMeshes' = r.atlas
    /\ calls' = calls + 1
    /\ mem' = Stored(mem, heap, heap')
    /\ UNCHANGED <<flags, ndebug, files>>

\* AssetPipeline::save(handle, jsonPath, binPath); handle may be null.
Save(handle) ==
    /\ CanCall
    /\ \E r \in {save(heap, handle, files, JsonPath, BinName)} :
        /\ heap' = r.heap
        /\ files' = r.files
        /\ slog' = r.slog
        /\ last' = Call("save", handle, 0, 0, 0, r.status)
    /\ calls' = calls + 1
    /\ xatlas' = <<>>
    /\ atlasMeshes' = <<>>
    /\ UNCHANGED <<handles, flags, ndebug, mem>>

\* AssetPipeline::~AssetPipeline: the Pipeline is deleted; its destructor
\* frees the source assets and the ArrayHolders release mStorage.
Destroy ==
    /\ mem.alive
    /\ last.status = "ok"
    /\ mem' = [mem EXCEPT !.alive = FALSE, !.mStorage = {},
                          !.freed = @ \o FreeSourceAssets(mem)]
    /\ last' = Call("destroy", 0, 0, 0, 0, "ok")
    /\ slog' = <<>>
    /\ xatlas' = <<>>
    /\ atlasMeshes' = <<>>
    /\ UNCHANGED <<heap, handles, flags, calls, ndebug, files>>

\* The meshes AddMesh may fail on for a source handle: none (0) or any one.
FailAts(source) == IF source = 0 THEN {0} ELSE 0..Len(heap[source].meshes)

Next ==
    \/ \E o \in SourceOptions : Load(o)
    \/ \E source \in handles, w \in WildAddrs, u \in UbOutcomes : FlattenBuffers(source, w, u)
    \/ \E source \in handles, w \in WildAddrs, u \in UbOutcomes : FlattenPrims(source, w, u)
    \/ \E source \in handles, w \in WildAddrs, u \in UbOutcomes : Flatten(source, w, u)
    \/ \E source \in handles \cup {0}, shape \in AtlasShapes, w \in WildAddrs :
            \E failAt \in FailAts(source) : Parameterize(source, failAt, shape, w)
    \/ \E handle \in handles \cup {0} : Save(handle)
    \/ Destroy

Spec == Init /\ [][Next]_vars

----------------------------------------------------------------------------
(* Properties of flattenBuffers: the aggregated buffer and the cloned views. *)

\* The (input, output) pairs of the flattenBuffers runs of the last call: the
\* call itself, or the runs inside flatten.
FlattenBuffersRuns ==
    IF last.op = "flattenBuffers"
    THEN (IF last.status = "ok" THEN {<<last.arg, last.ret>>} ELSE {})
    ELSE IF last.op = "flatten"
    THEN (IF last.pre # last.arg THEN {<<last.arg, last.pre>>} ELSE {})
         \cup (IF last.status = "ok" THEN {<<last.mid, last.ret>>} ELSE {})
    ELSE {}

\* Sum of the sizes of the first n buffers of a document.
RECURSIVE SizeBefore(_, _)
SizeBefore(D, n) == IF n = 0 THEN 0 ELSE SizeBefore(D, n - 1) + D.buffers[n].size

\* C1: flattenBuffers returns a document with exactly one buffer; its size is
\* the sum of the sizes of the input's buffers and its bytes are the bytes of
\* the input's buffers, concatenated in array order (size 0 for no buffers).
C1_SingleBufferIsConcatenation ==
    \A run \in FlattenBuffersRuns :
        LET D == heap[run[1]]
            R == heap[run[2]]
        IN  /\ Len(R.buffers) = 1
            /\ R.buffers[1].size = SizeBefore(D, Len(D.buffers))
            /\ Len(R.buffers[1].data) = R.buffers[1].size
            /\ \A k \in 1..Len(D.buffers) : \A j \in 1..D.buffers[k].size :
                    R.buffers[1].data[SizeBefore(D, k - 1) + j] = D.buffers[k].data[j]
            /\ (Len(D.buffers) = 0 => R.buffers[1].size = 0)

\* C1 witness: flattenBuffers has run on a document with three non-empty
\* buffers and returned one buffer of their total size.
C1_Witness ==
    /\ last.op = "flattenBuffers" /\ last.status = "ok"
    /\ Len(heap[last.arg].buffers) >= 3
    /\ \A k \in 1..Len(heap[last.arg].buffers) : heap[last.arg].buffers[k].size > 0
    /\ Len(heap[last.ret].buffers) = 1
    /\ heap[last.ret].buffers[1].size > heap[last.arg].buffers[1].size

\* Whether every element of an accessor lies inside the buffer its view
\* points into (an accessor of a well-formed document).
InBounds(h, acc) ==
    /\ acc.buffer_view.d > 0
    /\ h[acc.buffer_view.d].buffer_views[acc.buffer_view.i].buffer.d > 0
    /\ \/ acc.count = 0
       \/ ElementOffset(h, acc, acc.count - 1)
             + ComponentSize(acc.component_type) * getNumFloats(acc.type)
            <= Len(AccessorData(h, acc))

----------------------------------------------------------------------------
(* Frame and reference properties of the stages. *)

\* The records of a document a stage is given: the document and the image,
\* texture and material arrays its top-level pointers address.
InputRecords(h, d) ==
    [doc |-> h[d], images |-> Images(h, d), textures |-> Textures(h, d),
     materials |-> Materials(h, d)]

\* C3: no stage mutates its input document: every field of every record of
\* the document a call is given (each texture's image reference included) has
\* the same value after the call as before it.
C3_NoStageMutatesInput ==
    [][last'.op \in {"flattenBuffers", "flattenPrims", "flatten"} =>
            InputRecords(heap', last'.arg) = InputRecords(heap, last'.arg)]_vars

\* The documents whose arrays hold the records of document d.
Owners(h, d) == {d, h[d].imagesAt, h[d].texturesAt, h[d].materialsAt}

\* The references the records of document R hold, by kind.
ViewRefs(R) == {R.buffer_views[i].buffer : i \in 1..Len(R.buffer_views)}
AccessorRefs(R) == {R.accessors[i].buffer_view : i \in 1..Len(R.accessors)}
ImageRefs(R) == {R.images[i].buffer_view : i \in 1..Len(R.images)}
TextureRefs(R) == {R.textures[i].image : i \in 1..Len(R.textures)}
MaterialRefs(R) == {R.materials[i].tex[t] : i \in 1..Len(R.materials), t \in 1..7}
PrimRefs(R) ==
    {R.prims[i].material : i \in 1..Len(R.prims)}
    \cup {R.prims[i].indices : i \in 1..Len(R.prims)}
AttrRefs(R) == {R.attributes[i].data : i \in 1..Len(R.attributes)}
NodeMeshRefs(R) == {R.nodes[i].mesh : i \in 1..Len(R.nodes)}
NodeChildRefs(R) ==
    UNION {{R.nodes[i].children[c] : c \in 1..Len(R.nodes[i].children)} :
            i \in 1..Len(R.nodes)}
SceneRefs(R) == {R.nodePointers[i] : i \in 1..Len(R.nodePointers)} \cup {R.scene}

\* C4: after flattenBuffers(D) no reference held by a record of the result
\* (view->buffer, accessor->view, image->view, texture->image,
\* material->texture, primitive->material/indices, attribute->accessor,
\* node->mesh, node->children, scene->nodes, default scene) addresses a record
\* of D.
C4_NoReferenceIntoInput ==
    (last.op = "flattenBuffers" /\ last.status = "ok") =>
        \A p \in ViewRefs(heap[last.ret]) \cup AccessorRefs(heap[last.ret])
                 \cup ImageRefs(heap[last.ret]) \cup TextureRefs(heap[last.ret])
                 \cup MaterialRefs(heap[last.ret]) \cup PrimRefs(heap[last.ret])
                 \cup AttrRefs(heap[last.ret]) \cup NodeMeshRefs(heap[last.ret])
                 \cup NodeChildRefs(heap[last.ret]) \cup SceneRefs(heap[last.ret]) :
            p.d \notin Owners(heap, last.arg)

\* C5: after flattenBuffers an optional reference that is absent in the input
\* (a material's texture slot, a primitive's material, a primitive's indices
\* accessor, a texture's image, the default scene) is absent in the output,
\* and a present one maps to the clone with the same array index.
C5_AbsentStaysAbsent ==
    (last.op = "flattenBuffers" /\ last.status = "ok") =>
        LET D == heap[last.arg]
            R == heap[last.ret]
            kept(p, q) == IF IsNull(p) THEN IsNull(q)
                          ELSE p.d > 0 => q = [d |-> last.ret, i |-> p.i]
            mp == MeshPrims(D)
        IN  /\ \A i \in 1..Len(R.materials), t \in 1..7 :
                    kept(Materials(heap, last.arg)[i].tex[t], R.materials[i].tex[t])
            /\ \A i \in 1..Len(R.textures) :
                    kept(Textures(heap, last.arg)[i].image, R.textures[i].image)
            /\ \A k \in 1..Len(mp) :
                    /\ kept(D.prims[mp[k]].material, R.prims[k].material)
                    /\ kept(D.prims[mp[k]].indices, R.prims[k].indices)
            /\ kept(D.scene, R.scene)

----------------------------------------------------------------------------
(* Properties of flattenPrims: the shape of the result and what is baked. *)

\* The (input, output) pairs of the flattenPrims runs of the last call that
\* returned a document: the call itself, or the run inside flatten.
FlattenPrimsRuns ==
    IF last.op = "flattenPrims" /\ last.status = "ok" THEN {<<last.arg, last.ret>>}
    ELSE IF last.op = "flatten" /\ last.status = "ok" THEN {<<last.pre, last.mid>>}
    ELSE {}

\* A reference that is absent or addresses a record.
Sound(p) == IsNull(p) \/ p.d > 0

\* A document whose primitives, attributes and default scene hold no garbage
\* reference.
SoundDoc(D) ==
    /\ \A i \in 1..Len(D.prims) : Sound(D.prims[i].indices)
    /\ \A i \in 1..Len(D.attributes) : Sound(D.attributes[i].data)
    /\ Sound(D.scene)

\* Eligibility of a primitive: FILTER_TRIANGLES is unset or the topology is
\* triangles, every attribute has a present, non-sparse accessor with
\* elements, and the indices accessor is present and not sparse.
Eligible(h, D, prim, fl) ==
    /\ fl # FILTER_TRIANGLES \/ prim.type = "triangles"
    /\ \A k \in 1..prim.attributes_count :
            LET data == D.attributes[prim.attributes + k - 1].data
            IN  /\ ~IsNull(data)
                /\ ~h[data.d].accessors[data.i].is_sparse
                /\ h[data.d].accessors[data.i].count > 0
    /\ ~IsNull(prim.indices)
    /\ ~h[prim.indices.d].accessors[prim.indices.i].is_sparse

\* The eligible (node, primitive) pairs of document d, walking the node array
\* in index order and each node's mesh in primitive order.
EligiblePairs(h, d, fl) ==
    LET D == h[d]
        ofNode(i) ==
            IF IsNull(D.nodes[i].mesh) THEN <<>>
            ELSE LET mesh == D.meshes[D.nodes[i].mesh.i]
                 IN  SelectSeq([j \in 1..mesh.primitives_count |->
                                    [node |-> i, prim |-> mesh.primitives + j - 1]],
                               LAMBDA x : Eligible(h, D, D.prims[x.prim], fl))
    IN  Flat([i \in 1..Len(D.nodes) |-> ofNode(i)], Len(D.nodes))

\* C6: the result of flattenPrims has as many meshes and nodes as the input
\* has eligible (node, primitive) pairs; every mesh has one primitive; every
\* node has a mesh, no children and no local transform; the only scene is the
\* default scene, carries the source default scene's name and lists the nodes
\* in the order of the walk over source nodes and their primitives.
C6_OneNodePerEligiblePair ==
    \A run \in FlattenPrimsRuns :
        SoundDoc(heap[run[1]]) =>
            LET D == heap[run[1]]
                R == heap[run[2]]
                pairs == EligiblePairs(heap, run[1], flags)
            IN  /\ Len(R.meshes) = Len(pairs)
                /\ Len(R.nodes) = Len(pairs)
                /\ \A k \in 1..Len(R.meshes) :
                        /\ R.meshes[k].primitives_count = 1
                        /\ R.meshes[k].name =
                                D.meshes[D.nodes[pairs[k].node].mesh.i].name
                /\ \A k \in 1..Len(R.nodes) :
                        /\ R.nodes[k].mesh = [d |-> run[2], i |-> k]
                        /\ R.nodes[k].children = <<>>
                        /\ ~R.nodes[k].has_translation
                        /\ ~R.nodes[k].has_scale
                        /\ R.nodes[k].name = D.nodes[pairs[k].node].name
                /\ Len(R.scenes) = 1
                /\ R.scene = [d |-> run[2], i |-> 1]
                /\ R.scenes[1].name = heap[D.scene.d].scenes[D.scene.i].name
                /\ R.scenes[1].nodes_count = Len(R.nodes)
                /\ \A k \in 1..Len(R.nodes) :
                        R.nodePointers[R.scenes[1].nodes + k - 1] = [d |-> run[2], i |-> k]

\* C6 witness: flattenPrims has returned two nodes for one mesh that two
\* source nodes reference, after dropping an ineligible primitive.
C6_Witness ==
    /\ last.op = "flattenPrims"
    /\ last.status = "ok"
    /\ SoundDoc(heap[last.arg])
    /\ Len(heap[last.ret].nodes) = 2
    /\ heap[last.ret].nodes[1].name # heap[last.ret].nodes[2].name
    /\ heap[last.ret].meshes[1].name = heap[last.ret].meshes[2].name
    /\ Len(heap[last.arg].prims) > 1

\* C7: a primitive produces an output node iff it is eligible, and every
\* other primitive is dropped without error, also when flattenPrims runs
\* inside flatten on a multi-buffer document: flatten of a loaded document
\* with buffers and a default scene returns a document with one node per
\* eligible pair of the document.
C7_IneligibleCulledWithoutError ==
    (/\ last.op = "flatten"
     /\ last.arg = 1
     /\ Len(heap[1].buffers) >= 1
     /\ ~IsNull(heap[1].scene)) =>
        /\ last.status = "ok"
        /\ Len(heap[last.ret].nodes) = Len(EligiblePairs(heap, 1, flags))

\* The output primitive of the k-th node of a flattenPrims result.
OutputPrim(R, k) == R.prims[R.meshes[R.nodes[k].mesh.i].primitives]

\* C8: with FILTER_TRIANGLES set no primitive whose source topology is not
\* triangles is in flattenPrims' output; with it unset every otherwise
\* eligible primitive is in the output with the topology of its source.
C8_TopologyFilteredOrPreserved ==
    \A run \in FlattenPrimsRuns :
        SoundDoc(heap[run[1]]) =>
            LET D == heap[run[1]]
                R == heap[run[2]]
                pairs == EligiblePairs(heap, run[1], flags)
            IN  /\ Len(R.nodes) = Len(pairs)
                /\ \A k \in 1..Len(pairs) :
                        /\ flags = FILTER_TRIANGLES => D.prims[pairs[k].prim].type = "triangles"
                        /\ OutputPrim(R, k).type = D.prims[pairs[k].prim].type

\* The image of point v under the local transform of a node.
ApplyLocal(node, v) ==
    [c \in 1..3 |->
        (IF node.has_scale THEN node.scale[c] ELSE 1) * v[c]
        + (IF node.has_translation THEN node.translation[c] ELSE 0)]

RECURSIVE ApplyWorld(_, _, _)
\* The image of point v under the world transform of the node p addresses:
\* its own local transform first, then those of its ancestors, parent first.
ApplyWorld(h, p, v) ==
    LET node == h[p.d].nodes[p.i]
        local == ApplyLocal(node, v)
    IN  IF IsNull(node.parent) THEN local ELSE ApplyWorld(h, node.parent, local)

\* The accessor of the attribute of the given type of a primitive of R.
AttrOfType(R, prim, type) ==
    LET k == CHOOSE k \in 1..prim.attributes_count :
                    R.attributes[prim.attributes + k - 1].type = type
        data == R.attributes[prim.attributes + k - 1].data
    IN  R.accessors[data.i]

\* The elements of a vec3 accessor, read as floats.
Vec3Stream(h, acc) ==
    [e \in 1..acc.count |-> Array(cgltf_accessor_read_float(h, acc, e - 1, 3))]

\* C9: for every eligible primitive of source node N the baked POSITION
\* stream has the element count and order of the source stream, and element
\* i is the image of source element i under N's world transform.
C9_PositionsBakedByWorldTransform ==
    \A run \in FlattenPrimsRuns :
        SoundDoc(heap[run[1]]) =>
            LET D == heap[run[1]]
                R == heap[run[2]]
                pairs == EligiblePairs(heap, run[1], flags)
            IN  /\ Len(R.nodes) = Len(pairs)
                /\ \A k \in 1..Len(pairs) :
                        LET src == Vec3Stream(heap, AttrOfType(D, D.prims[pairs[k].prim],
                                                               "position"))
                            out == Vec3Stream(heap, AttrOfType(R, OutputPrim(R, k),
                                                               "position"))
                        IN  /\ Len(out) = Len(src)
                            /\ \A e \in 1..Len(src) :
                                    out[e] = Array(ApplyWorld(heap,
                                                [d |-> run[1], i |-> pairs[k].node],
                                                src[e]))

\* C9 witness: flattenPrims has baked the triangle of a child node whose
\* parent is translated by (10, 0, 0).
C9_Witness ==
    /\ last.op = "flattenPrims"
    /\ last.status = "ok"
    /\ heap[last.arg].nodes[1].translation = <<10, 0, 0>>
    /\ heap[last.arg].nodes[1].has_translation
    /\ ~heap[last.arg].nodes[2].has_translation
    /\ ~heap[last.arg].nodes[2].has_scale
    /\ Len(heap[last.ret].nodes) = 1
    /\ Vec3Stream(heap, AttrOfType(heap[last.ret], OutputPrim(heap[last.ret], 1),
                                   "position"))
            = <<<<10, 0, 0>>, <<11, 0, 0>>, <<10, 1, 0>>>>

\* The documents the last call produced with flattenPrims or flatten.
BakedDocs ==
    IF last.status = "ok" /\ last.op = "flattenPrims" THEN {last.ret}
    ELSE IF last.status = "ok" /\ last.op = "flatten" THEN {last.mid, last.ret}
    ELSE {}

\* C10: every POSITION accessor of a document produced by flattenPrims or by
\* flatten has has_min and has_max set, and min / max are the component-wise
\* minimum / maximum over the vertices of that accessor.
C10_BoundsRecomputed ==
    \A d \in BakedDocs :
        \A a \in 1..Len(heap[d].attributes) :
            heap[d].attributes[a].type = "position" =>
                LET acc == heap[d].accessors[heap[d].attributes[a].data.i]
                    pts == Vec3Stream(heap, acc)
                IN  /\ acc.has_min
                    /\ acc.has_max
                    /\ \A c \in 1..3 :
                            /\ \A e \in 1..Len(pts) : acc.min[c] <= pts[e][c]
                            /\ \E e \in 1..Len(pts) : acc.min[c] = pts[e][c]
                            /\ \A e \in 1..Len(pts) : acc.max[c] >= pts[e][c]
                            /\ \E e \in 1..Len(pts) : acc.max[c] = pts[e][c]

\* C10 witness: flatten has returned a document whose POSITION accessor has
\* min (0, 0, 0) and max (1, 1, 0), the bounds of the unit triangle, while the
\* source accessor declared other bounds.
C10_Witness ==
    /\ last.op = "flatten"
    /\ last.status = "ok"
    /\ Len(heap[last.ret].nodes) = 1
    /\ AttrOfType(heap[last.ret], OutputPrim(heap[last.ret], 1), "position").min = <<0, 0, 0>>
    /\ AttrOfType(heap[last.ret], OutputPrim(heap[last.ret], 1), "position").max = <<1, 1, 0>>
    /\ AttrOfType(heap[last.arg], heap[last.arg].prims[1], "position").min = <<-5, -5, -5>>

----------------------------------------------------------------------------
(* Properties of the baked indices, of the flattened marker and of the     *)
(* precondition of flattenPrims.                                           *)

\* The values an index accessor reads, element by element.
IndexStream(h, acc) == [e \in 1..acc.count |-> cgltf_accessor_read_index(h, acc, e - 1)]

\* C11: for every eligible primitive flattenPrims emits an indices accessor
\* of component type unsigned 32-bit, scalar shape and stride 4, with the
\* count of the source indices accessor and with element i equal to source
\* index i, whatever the width of the source indices.
C11_IndicesRewrittenAsU32 ==
    \A run \in FlattenPrimsRuns :
        SoundDoc(heap[run[1]]) =>
            LET D == heap[run[1]]
                R == heap[run[2]]
                pairs == EligiblePairs(heap, run[1], flags)
            IN  /\ Len(R.nodes) = Len(pairs)
                /\ \A k \in 1..Len(pairs) :
                        LET ip == D.prims[pairs[k].prim].indices
                            src == heap[ip.d].accessors[ip.i]
                            out == R.accessors[OutputPrim(R, k).indices.i]
                        IN  /\ OutputPrim(R, k).indices.d = run[2]
                            /\ out.component_type = "r_32u"
                            /\ out.type = "scalar"
                            /\ out.stride = 4
                            /\ out.count = src.count
                            /\ IndexStream(heap, out) = IndexStream(heap, src)

\* C11 witness: flattenPrims has returned a primitive whose 32-bit indices
\* read 0, 1, 2 for a source primitive with 8-bit indices.
C11_Witness ==
    /\ last.op = "flattenPrims"
    /\ last.status = "ok"
    /\ Len(heap[last.ret].nodes) = 1
    /\ heap[last.arg].accessors[heap[last.arg].prims[1].indices.i].component_type = "r_8u"
    /\ heap[last.ret].accessors[OutputPrim(heap[last.ret], 1).indices.i].component_type
            = "r_32u"
    /\ IndexStream(heap, heap[last.ret].accessors[OutputPrim(heap[last.ret], 1).indices.i])
            = <<0, 1, 2>>

\* The bytes in use of buffer k of a document.
BufferBytes(D, k) == SubSeq(D.buffers[k].data, 1, D.buffers[k].size)

\* C12: a document returned by flatten for an input with at least one buffer,
\* and a document returned by parameterize, satisfies isFlattened (the only
\* test parameterize and save apply before accepting a document); flatten aggregates the buffers first only
\* when the input has more than one, then runs flattenPrims on that, then
\* flattenBuffers, and the final buffer is the baked geometry (the first
\* buffer flattenPrims returned) followed by the single pre-bake buffer.
\* (A call that died on an input holding a view without buffer is no case of
\* this.)
C12_ResultsAreFlattened ==
    /\ (last.op = "flatten" /\ Len(heap[last.arg].buffers) >= 1
            /\ ~(last.status = "crash" /\ OffsetsReadOutside(heap, last.arg))) =>
            /\ IF Len(heap[last.arg].buffers) > 1
               THEN /\ last.pre # last.arg
                    /\ Len(heap[last.pre].buffers) = 1
                    /\ BufferBytes(heap[last.pre], 1) = AggregateData(heap[last.arg])
               ELSE last.pre = last.arg
            /\ (last.status = "ok") =>
                    /\ last.ret \in handles
                    /\ isFlattened(heap, last.ret) = "yes"
                    /\ last.mid # last.pre /\ last.ret # last.mid
                    /\ Len(heap[last.mid].buffers) = 2
                    /\ heap[last.mid].buffers[2] = heap[last.pre].buffers[1]
                    /\ Len(heap[last.ret].buffers) = 1
                    /\ BufferBytes(heap[last.ret], 1)
                            = BufferBytes(heap[last.mid], 1) \o BufferBytes(heap[last.pre], 1)
    /\ (last.op = "parameterize" /\ last.ret # 0) =>
            /\ last.ret \in handles
            /\ isFlattened(heap, last.ret) = "yes"

\* C12 witness: load, then flatten of the multi-buffer document (three stages,
\* documents 2 to 4), then parameterize of what flatten returned has produced
\* document 5, which is flattened.
C12_Witness ==
    /\ last.op = "parameterize"
    /\ last.arg = 4
    /\ last.ret = 5
    /\ Len(heap[1].buffers) > 1
    /\ isFlattened(heap, 1) = "no"
    /\ isFlattened(heap, 5) = "yes"
    /\ Len(BufferBytes(heap[4], 1)) > Len(AggregateData(heap[1]))

\* C13: flattenPrims, called directly or reached through flatten, rejects a
\* document whose buffers_count is not 1: the call ends without a result
\* document and without a fault.
C13_PrimsRejectsOtherThanOneBuffer ==
    (last.op \in {"flattenPrims", "flatten"} /\ Len(heap[last.pre].buffers) # 1) =>
        /\ last.status # "crash"
        /\ last.mid = 0
        /\ last.ret = 0

----------------------------------------------------------------------------
(* Properties of parameterize. *)

\* Whether asset handle a violates one of the conditions of a flattened
\* document: non-null handle, one buffer, as many nodes as meshes, one
\* primitive in every mesh, generator equal to the pipeline identifier.
NotFlattenedInput(h, a) ==
    \/ a = 0
    \/ Len(h[a].buffers) # 1
    \/ Len(h[a].nodes) # Len(h[a].meshes)
    \/ \E i \in 1..Len(h[a].meshes) : h[a].meshes[i].primitives_count # 1
    \/ h[a].generator # GENERATOR_ID

\* C14: parameterize on an input that violates one of the conditions of a
\* flattened document returns null and writes a diagnostic, without creating
\* an atlas.
C14_ParameterizeRejectsUnflattened ==
    (last.op = "parameterize" /\ NotFlattenedInput(heap, last.arg)) =>
        /\ last.status = "ok"
        /\ last.ret = 0
        /\ slog # <<>>
        /\ xatlas = <<>>

\* Whether the last call is a parameterize that returned a document.
Parameterized == last.op = "parameterize" /\ last.status = "ok" /\ last.ret # 0

\* The primitive of mesh i of a parameterized document.
ResultPrim(R, i) == R.prims[R.meshes[i].primitives]

\* Sum of the float widths of the first n attributes of a source primitive.
FloatWidths(h, S, prim, n) ==
    SumTo([ai \in 1..prim.attributes_count |->
            getNumFloats(PrimAccessors(h, S, prim)[ai].type)], n)

\* C15: after a successful parameterize the attribute list of every primitive
\* is the source primitive's list (same names, semantics and set indices, in
\* the same order) followed by one attribute named TEXCOORD_4, of semantic
\* texcoord and index 4, whose accessor is fp32 vec2, counts the vertices the
\* atlas reported for the mesh, and has byte offset 4 times the sum of the
\* float widths of the source attributes.
C15_BakedUvAttributeAppended ==
    Parameterized =>
        LET S == heap[last.arg]
            R == heap[last.ret]
        IN  /\ Len(R.meshes) = Len(S.meshes)
            /\ Len(atlasMeshes) = Len(S.meshes)
            /\ \A i \in 1..Len(R.meshes) :
                LET Q == FirstPrim(S, i)
                    P == ResultPrim(R, i)
                    uv == R.attributes[P.attributes + Q.attributes_count]
                    acc == R.accessors[uv.data.i]
                IN  /\ P.attributes_count = Q.attributes_count + 1
                    /\ \A ai \in 1..Q.attributes_count :
                        LET a == R.attributes[P.attributes + ai - 1]
                            b == S.attributes[Q.attributes + ai - 1]
                        IN  a.name = b.name /\ a.type = b.type /\ a.index = b.index
                    /\ uv.name = "TEXCOORD_4"
                    /\ uv.type = "texcoord"
                    /\ uv.index = 4
                    /\ uv.data.d = last.ret
                    /\ acc.component_type = "r_32f"
                    /\ acc.type = "vec2"
                    /\ acc.count = atlasMeshes[i].vertexCount
                    /\ acc.offset = 4 * FloatWidths(heap, S, Q, Q.attributes_count)
                    /\ acc.offset + 8 = acc.stride

\* C15 witness: parameterize has returned a document for a source whose first
\* primitive has at least two attributes; the atlas cut a vertex, and the
\* TEXCOORD_4 accessor counts one vertex more than the source positions.
C15_Witness ==
    /\ Parameterized
    /\ FirstPrim(heap[last.arg], 1).attributes_count >= 2
    /\ ResultPrim(heap[last.ret], 1).attributes_count
            = FirstPrim(heap[last.arg], 1).attributes_count + 1
    /\ LET P == ResultPrim(heap[last.ret], 1)
           uv == heap[last.ret].attributes[P.attributes + P.attributes_count - 1]
       IN  /\ uv.name = "TEXCOORD_4"
           /\ heap[last.ret].accessors[uv.data.i].count = 4
           /\ heap[last.ret].accessors[uv.data.i].offset >= 24

\* C16: after a successful parameterize, for every mesh i and every vertex j
\* the atlas reported for it, each source attribute of the output primitive
\* reads at j what the source attribute reads at the vertex's xref, TEXCOORD_4
\* reads the vertex's uv pair, and the output indices are the index array
\* the atlas reported for mesh i.
C16_VerticesReadAtXref ==
    Parameterized =>
        LET S == heap[last.arg]
            R == heap[last.ret]
        IN  \A i \in 1..Len(atlasMeshes) :
                LET Q == FirstPrim(S, i)
                    P == ResultPrim(R, i)
                    src == PrimAccessors(heap, S, Q)
                    out == PrimAccessors(heap, R, P)
                IN  /\ Len(out) = Len(src) + 1
                    /\ \A j \in 1..atlasMeshes[i].vertexCount :
                        /\ \A a \in 1..Len(src) :
                            cgltf_accessor_read_float(heap, out[a], j - 1,
                                                      getNumFloats(src[a].type))
                                = cgltf_accessor_read_float(
                                    heap, src[a], atlasMeshes[i].vertexArray[j].xref,
                                    getNumFloats(src[a].type))
                        /\ cgltf_accessor_read_float(heap, out[Len(out)], j - 1, 2)
                                = atlasMeshes[i].vertexArray[j].uv
                    /\ P.indices.d = last.ret
                    /\ IndexStream(heap, R.accessors[P.indices.i])
                            = atlasMeshes[i].indexArray

\* C16 witness: parameterize has returned a document for an atlas of four
\* vertices whose first vertex comes from source vertex 2; the first output
\* attribute reads at vertex 0 what the source reads at vertex 2, which is
\* not what the source reads at vertex 0, and the last index is the cut vertex.
C16_Witness ==
    /\ Parameterized
    /\ atlasMeshes[1].vertexCount = 4
    /\ atlasMeshes[1].vertexArray[1].xref = 2
    /\ LET src == PrimAccessors(heap, heap[last.arg], FirstPrim(heap[last.arg], 1))
           out == PrimAccessors(heap, heap[last.ret], ResultPrim(heap[last.ret], 1))
       IN  /\ cgltf_accessor_read_float(heap, out[1], 0, 3)
                = cgltf_accessor_read_float(heap, src[1], 2, 3)
           /\ cgltf_accessor_read_float(heap, src[1], 2, 3)
                # cgltf_accessor_read_float(heap, src[1], 0, 3)
           /\ cgltf_accessor_read_float(heap, out[Len(out)], 3, 2) = <<9, 3>>
    /\ IndexStream(heap, heap[last.ret].accessors[
            ResultPrim(heap[last.ret], 1).indices.i]) = <<0, 1, 3>>

\* The names of the calls made on the atlas, in order.
AtlasFns == [k \in 1..Len(xatlas) |-> xatlas[k].fn]

\* C17: when AddMesh reports an error for mesh m, parameterize returns null
\* and writes a diagnostic that names mesh m; the failed AddMesh is the last
\* call made on the atlas, so no later mesh is submitted and the charts are
\* never computed, parameterized or packed.
C17_AddMeshFailureAborts ==
    \A k \in 1..Len(xatlas) :
        xatlas[k].error =>
            /\ last.op = "parameterize"
            /\ last.status = "ok"
            /\ last.ret = 0
            /\ xatlas[k].fn = "AddMesh"
            /\ slog = <<"Error parameterizing " \o heap[last.arg].meshes[xatlas[k].mesh].name>>
            /\ \A n \in 1..Len(xatlas) :
                    /\ xatlas[n].fn = "AddMesh" => xatlas[n].mesh <= xatlas[k].mesh
                    /\ xatlas[n].fn \notin {"ComputeCharts", "ParameterizeCharts",
                                            "PackCharts", "read"}
            /\ k = Len(xatlas)
            /\ atlasMeshes = <<>>

\* C17 witness: AddMesh has failed for the first of two meshes; parameterize
\* returned null after the calls Create and AddMesh(1).
C17_Witness ==
    /\ last.op = "parameterize"
    /\ last.ret = 0
    /\ last.arg # 0
    /\ Len(heap[last.arg].meshes) = 2
    /\ AtlasFns = <<"Create", "AddMesh">>
    /\ xatlas[2].error /\ xatlas[2].mesh = 1
    /\ slog = <<"Error parameterizing mesh">>

\* C18: in a successful parameterize the calls on the atlas are, in order:
\* Create; AddMesh for every mesh in array order; ComputeCharts;
\* ParameterizeCharts; PackCharts; the reading of the result arrays; Destroy.
C18_AtlasCallOrder ==
    Parameterized =>
        LET n == Len(heap[last.arg].meshes)
        IN  /\ AtlasFns = <<"Create">> \o [i \in 1..n |-> "AddMesh"]
                            \o <<"ComputeCharts", "ParameterizeCharts", "PackCharts",
                                 "read", "Destroy">>
            /\ \A i \in 1..n : xatlas[i + 1].mesh = i /\ ~xatlas[i + 1].error

\* C18 witness: a successful parameterize of a document with two meshes has
\* made eight calls on the atlas, the second mesh being added third.
C18_Witness ==
    /\ Parameterized
    /\ Len(heap[last.arg].meshes) = 2
    /\ Len(xatlas) = 8
    /\ xatlas[3].fn = "AddMesh" /\ xatlas[3].mesh = 2
    /\ xatlas[6].fn = "PackCharts"

----------------------------------------------------------------------------
(* Properties of save and of the pipeline's storage. *)

\* Whether asset handle a satisfies the three conditions of isFlattened.
SatisfiesFlattened(h, a) ==
    /\ a # 0
    /\ Len(h[a].buffers) = 1
    /\ Len(h[a].nodes) = Len(h[a].meshes)
    /\ h[a].generator = GENERATOR_ID

\* What a save step must do, given whether the handle is flattened.
SaveOutcome ==
    IF ~SatisfiesFlattened(heap, last'.arg)
    THEN /\ last'.status = "ok"
         /\ slog' # <<>>
         /\ files' = files
         /\ heap' = heap
    ELSE /\ last'.status = "ok"
         /\ slog' = <<>>
         /\ Len(files') = Len(files) + 2
         /\ files'[Len(files) + 1].path = JsonPath
         /\ files'[Len(files) + 1].asset = last'.arg
         /\ files'[Len(files) + 1].uri = BinName
         /\ files'[Len(files) + 2].path = BinName
         /\ files'[Len(files) + 2].bytes = BufferBytes(heap[last'.arg], 1)
         /\ SubSeq(files', 1, Len(files)) = files
         /\ heap'[last'.arg].buffers[1].uri = ""
         /\ heap' = [heap EXCEPT ![last'.arg].buffers[1].uri = ""]

\* C19: save on a handle that does not satisfy the conditions of isFlattened
\* writes a diagnostic, writes no file and leaves every document unchanged;
\* on a flattened handle the JSON is written while buffers[0].uri is the name
\* of the binary file, the uri is null afterwards, and the binary file holds
\* exactly the bytes of buffers[0].
C19_SaveOnlyFlattened ==
    [][(last'.op = "save" /\ calls' = calls + 1) => SaveOutcome]_vars

\* The documents a stage returned: those of the heap that load did not
\* register.
StageDocuments(h, m) ==
    {d \in 1..Len(h) : \A k \in 1..Len(m.mSourceAssets) : m.mSourceAssets[k] # d}

\* The state of the storage after a step: while the pipeline lives every
\* stage document is held by mStorage and no source asset is freed; once it
\* is destroyed every source asset has been freed, each once.
StorageAfter ==
    IF mem'.alive
    THEN /\ mem'.mStorage = StageDocuments(heap', mem')
         /\ mem'.freed = <<>>
    ELSE /\ mem'.freed = mem'.mSourceAssets
         /\ \A j, k \in 1..Len(mem'.freed) : mem'.freed[j] = mem'.freed[k] => j = k

\* C20: over any sequence of load, stage and save calls, what mStorage holds
\* only grows until the pipeline is destroyed, every document a stage
\* returned stays in it, and the source assets registered by load are freed
\* at destruction, each exactly once, and not before.
C20_StorageOutlivesStages ==
    [][/\ StorageAfter
       /\ mem'.alive =>
            /\ mem.alive
            /\ mem.mStorage \subseteq mem'.mStorage
            /\ Len(heap') >= Len(heap)
            /\ \A k \in 1..Len(mem.mSourceAssets) :
                    mem'.mSourceAssets[k] = mem.mSourceAssets[k]
       /\ (mem.alive /\ ~mem'.alive) =>
            /\ mem'.mSourceAssets = mem.mSourceAssets
            /\ heap' = heap]_vars

\* C20 witness: the pipeline has been destroyed after a load and two stage
\* calls; the loaded document is the one document freed.
C20_Witness ==
    /\ ~mem.alive
    /\ calls = 2
    /\ Len(heap) >= 3
    /\ mem.mSourceAssets = <<1>>
    /\ mem.freed = <<1>>

----------------------------------------------------------------------------
(* Structural equality of documents, and idempotence of flattenBuffers. *)

\* Whether reference p of a document whose target array belongs to document
\* a, and reference q of a document whose target array belongs to document
\* b, are the same cross-reference: both absent, or both addressing the
\* record of the same index of their own array.
SameRef(p, a, q, b) ==
    \/ IsNull(p) /\ IsNull(q)
    \/ p.d = a /\ q.d = b /\ p.d > 0 /\ p.i = q.i

\* Whether documents a and b of heap h have the same buffer bytes, the same
\* view offsets, sizes and strides, the same record counts and the same
\* cross-references, index by index.
SameStructure(h, a, b) ==
    LET A == h[a]
        B == h[b]
    IN  /\ Len(A.buffers) = Len(B.buffers)
        /\ \A k \in 1..Len(A.buffers) : BufferBytes(A, k) = BufferBytes(B, k)
        /\ Len(A.buffer_views) = Len(B.buffer_views)
        /\ \A i \in 1..Len(A.buffer_views) :
                /\ A.buffer_views[i].offset = B.buffer_views[i].offset
                /\ A.buffer_views[i].size = B.buffer_views[i].size
                /\ A.buffer_views[i].stride = B.buffer_views[i].stride
                /\ SameRef(A.buffer_views[i].buffer, a, B.buffer_views[i].buffer, b)
        /\ Len(A.accessors) = Len(B.accessors)
        /\ \A i \in 1..Len(A.accessors) :
                /\ [A.accessors[i] EXCEPT !.buffer_view = Null]
                        = [B.accessors[i] EXCEPT !.buffer_view = Null]
                /\ SameRef(A.accessors[i].buffer_view, a, B.accessors[i].buffer_view, b)
        /\ Len(Images(h, a)) = Len(Images(h, b))
        /\ \A i \in 1..Len(Images(h, a)) :
                SameRef(Images(h, a)[i].buffer_view, a, Images(h, b)[i].buffer_view, b)
        /\ Len(Textures(h, a)) = Len(Textures(h, b))
        /\ \A i \in 1..Len(Textures(h, a)) :
                SameRef(Textures(h, a)[i].image, A.imagesAt,
                        Textures(h, b)[i].image, B.imagesAt)
        /\ Len(Materials(h, a)) = Len(Materials(h, b))
        /\ \A i \in 1..Len(Materials(h, a)) : \A t \in 1..7 :
                SameRef(Materials(h, a)[i].tex[t], A.texturesAt,
                        Materials(h, b)[i].tex[t], B.texturesAt)
        /\ Len(A.meshes) = Len(B.meshes)
        /\ \A i \in 1..Len(A.meshes) :
                /\ A.meshes[i].primitives_count = B.meshes[i].primitives_count
                /\ \A j \in 1..A.meshes[i].primitives_count :
                    LET P == A.prims[A.meshes[i].primitives + j - 1]
                        Q == B.prims[B.meshes[i].primitives + j - 1]
                    IN  /\ P.type = Q.type
                        /\ SameRef(P.material, A.materialsAt, Q.material, B.materialsAt)
                        /\ SameRef(P.indices, a, Q.indices, b)
                        /\ P.attributes_count = Q.attributes_count
                        /\ \A k \in 1..P.attributes_count :
                            LET x == A.attributes[P.attributes + k - 1]
                                y == B.attributes[Q.attributes + k - 1]
                            IN  /\ x.name = y.name /\ x.type = y.type
                                /\ x.index = y.index
                                /\ SameRef(x.data, a, y.data, b)
        /\ Len(A.nodes) = Len(B.nodes)
        /\ \A i \in 1..Len(A.nodes) :
                /\ SameRef(A.nodes[i].mesh, a, B.nodes[i].mesh, b)
                /\ Len(A.nodes[i].children) = Len(B.nodes[i].children)
                /\ \A c \in 1..Len(A.nodes[i].children) :
                    SameRef(A.nodes[i].children[c], a, B.nodes[i].children[c], b)
        /\ Len(A.scenes) = Len(B.scenes)
        /\ \A i \in 1..Len(A.scenes) :
                /\ A.scenes[i].nodes_count = B.scenes[i].nodes_count
                /\ \A j \in 1..A.scenes[i].nodes_count :
                    SameRef(A.nodePointers[A.scenes[i].nodes + j - 1], a,
                            B.nodePointers[B.scenes[i].nodes + j - 1], b)
        /\ SameRef(A.scene, a, B.scene, b)

\* C21: for a document D with exactly one buffer, flattenBuffers(D) has the
\* buffer bytes, the view offsets, sizes and strides, the record counts and
\* the cross-references of D; in particular flattenBuffers of a document
\* flattenBuffers returned is structurally equal to it.
C21_FlattenBuffersIdempotent ==
    \A run \in FlattenBuffersRuns :
        Len(heap[run[1]].buffers) = 1 => SameStructure(heap, run[1], run[2])

----------------------------------------------------------------------------
(* Scenes of a parameterized document. *)

\* C22: after a successful parameterize the result has as many scenes as the
\* source; node reference j of result scene s addresses the result's node
\* with the index of node reference j of source scene s; the node lists of
\* two scenes do not overlap; and the default scene keeps its index.
C22_ScenesCloned ==
    Parameterized =>
        LET S == heap[last.arg]
            R == heap[last.ret]
        IN  /\ Len(R.scenes) = Len(S.scenes)
            /\ \A s \in 1..Len(S.scenes) :
                /\ R.scenes[s].nodes_count = S.scenes[s].nodes_count
                /\ \A j \in 1..S.scenes[s].nodes_count :
                    SameRef(S.nodePointers[S.scenes[s].nodes + j - 1], last.arg,
                            R.nodePointers[R.scenes[s].nodes + j - 1], last.ret)
            /\ \A s, t \in 1..Len(R.scenes) :
                (s < t /\ R.scenes[s].nodes_count > 0 /\ R.scenes[t].nodes_count > 0) =>
                    \/ R.scenes[s].nodes + R.scenes[s].nodes_count <= R.scenes[t].nodes
                    \/ R.scenes[t].nodes + R.scenes[t].nodes_count <= R.scenes[s].nodes
            /\ SameRef(S.scene, last.arg, R.scene, last.ret)

----------------------------------------------------------------------------
(* Layout of the document flattenPrims returns. *)

\* Whether every view of a document ends inside the buffer it references.
ViewsInBounds(h, D) ==
    \A i \in 1..Len(D.buffer_views) :
        LET v == D.buffer_views[i]
        IN  /\ v.buffer.d > 0
            /\ v.offset + v.size <= h[v.buffer.d].buffers[v.buffer.i].size

\* The flattenPrims runs of the last call on a single-buffer document
\* without garbage references and whose views lie inside the buffer: the
\* inputs flattenPrims is specified for.
SoundPrimsRuns ==
    {run \in FlattenPrimsRuns :
        /\ Len(heap[run[1]].buffers) = 1
        /\ SoundDoc(heap[run[1]])
        /\ ViewsInBounds(heap, heap[run[1]])}

\* Whether primitive k of a flattenPrims result has an attribute of a type.
HasAttr(R, k, type) ==
    \E a \in 1..R.prims[k].attributes_count :
        R.attributes[R.prims[k].attributes + a - 1].type = type

\* The position in the accessor array of the accessor that attribute reads.
AttrSlot(R, k, type) ==
    R.attributes[R.prims[k].attributes - 1
                 + CHOOSE a \in 1..R.prims[k].attributes_count :
                        R.attributes[R.prims[k].attributes + a - 1].type = type].data.i

\* The number of primitives up to k that have an attribute of a type.
RankOf(R, k, type) == Cardinality({j \in 1..k : HasAttr(R, j, type)})

\* Whether the views at the slots `order` lie one behind the other from
\* offset 0 to the end of a buffer of the given size.
Tiles(views, order, size) ==
    /\ \A s \in 1..Len(order) :
            views[order[s]].offset
                = IF s = 1 THEN 0
                  ELSE views[order[s - 1]].offset + views[order[s - 1]].size
    /\ size = IF Len(order) = 0 THEN 0
              ELSE views[order[Len(order)]].offset + views[order[Len(order)]].size

\* C23: in the document flattenPrims returns the views and the accessors are
\* ordered indices of every primitive, positions of every primitive, normals
\* of the primitives that have them, tangents of the primitives that have
\* them, clones of the source's; in buffer 0 the baked views lie one behind
\* the other, positions (12 bytes an element), normals (12), tangents (16),
\* indices (4), each group in primitive order, and fill the buffer exactly;
\* every view ends inside the buffer it references.
C23_BakedBufferLayout ==
    \A run \in SoundPrimsRuns :
        LET D == heap[run[1]]
            R == heap[run[2]]
            n == Len(R.prims)
            nN == RankOf(R, n, "normal")
            nT == RankOf(R, n, "tangent")
            baked == 2 * n + nN + nT
            slot(k, type) ==
                CASE type = "position" -> n + k
                  [] type = "normal" -> 2 * n + RankOf(R, k, "normal")
                  [] type = "tangent" -> 2 * n + nN + RankOf(R, k, "tangent")
            width(type) == IF type = "tangent" THEN 16 ELSE 12
        IN  /\ Len(R.buffer_views) = baked + Len(D.buffer_views)
            /\ Len(R.accessors) = baked + Len(D.accessors)
            /\ \A k \in 1..n :
                /\ R.prims[k].indices = [d |-> run[2], i |-> k]
                /\ R.accessors[k].buffer_view = [d |-> run[2], i |-> k]
                /\ R.buffer_views[k].size = 4 * R.accessors[k].count
                /\ HasAttr(R, k, "position")
                /\ \A type \in {"position", "normal", "tangent"} :
                    HasAttr(R, k, type) =>
                        /\ AttrSlot(R, k, type) = slot(k, type)
                        /\ R.accessors[slot(k, type)].buffer_view
                                = [d |-> run[2], i |-> slot(k, type)]
                        /\ R.accessors[slot(k, type)].offset = 0
                        /\ R.buffer_views[slot(k, type)].size
                                = width(type) * R.accessors[slot(k, type)].count
            /\ \A i \in 1..baked : R.buffer_views[i].buffer = [d |-> run[2], i |-> 1]
            /\ Tiles(R.buffer_views,
                     [s \in 1..baked |-> IF s <= baked - n THEN n + s ELSE s - (baked - n)],
                     R.buffers[1].size)
            /\ Len(R.buffers[1].data) = R.buffers[1].size
            /\ \A i \in 1..Len(R.buffer_views) :
                /\ R.buffer_views[i].buffer.d = run[2]
                /\ R.buffer_views[i].offset + R.buffer_views[i].size
                        <= R.buffers[R.buffer_views[i].buffer.i].size

\* The attributes of primitive prim of document D that are neither POSITION,
\* NORMAL nor TANGENT, in order.
OtherAttrs(D, prim) ==
    SelectSeq([a \in 1..prim.attributes_count |-> D.attributes[prim.attributes + a - 1]],
              LAMBDA x : x.type \notin {"position", "normal", "tangent"})

\* Whether q is the clone of reference p of document d, in document r and
\* shifted by offset: absent when p is absent.
ShiftedRef(p, d, q, r, offset) ==
    IF IsNull(p) THEN IsNull(q)
    ELSE p.d = d /\ q = [d |-> r, i |-> offset + p.i]

\* C24: in the document flattenPrims returns, buffer 1 is the input's buffer;
\* every source view is cloned behind the baked views with its offset and
\* size and references buffer 1; every source accessor is cloned at the same
\* shift and references the shifted view; and every attribute of an output
\* primitive other than POSITION, NORMAL and TANGENT references the shifted
\* clone of its source accessor and reads the bytes it read in the input,
\* also in the document flatten returns.
C24_SourceViewsPassedThrough ==
    \A run \in SoundPrimsRuns :
        LET D == heap[run[1]]
            R == heap[run[2]]
            offset == Len(R.buffer_views) - Len(D.buffer_views)
            pairs == EligiblePairs(heap, run[1], flags)
        IN  /\ Len(R.buffers) = 2
            /\ R.buffers[2].size = D.buffers[1].size
            /\ R.buffers[2].data = D.buffers[1].data
            /\ offset = Len(R.accessors) - Len(D.accessors)
            /\ \A i \in 1..Len(D.buffer_views) :
                R.buffer_views[offset + i]
                    = [D.buffer_views[i] EXCEPT !.buffer = [d |-> run[2], i |-> 2]]
            /\ \A i \in 1..Len(D.accessors) :
                /\ [R.accessors[offset + i] EXCEPT !.buffer_view = Null]
                        = [D.accessors[i] EXCEPT !.buffer_view = Null]
                /\ ShiftedRef(D.accessors[i].buffer_view, run[1],
                              R.accessors[offset + i].buffer_view, run[2], offset)
            /\ Len(R.prims) = Len(pairs)
            /\ \A k \in 1..Len(pairs) :
                LET src == OtherAttrs(D, D.prims[pairs[k].prim])
                    out == OtherAttrs(R, R.prims[k])
                IN  /\ Len(out) = Len(src)
                    /\ \A j \in 1..Len(src) :
                        /\ out[j].name = src[j].name
                        /\ out[j].index = src[j].index
                        /\ ShiftedRef(src[j].data, run[1], out[j].data, run[2], offset)
                        /\ AccessorBytes(heap, R.accessors[out[j].data.i])
                                = AccessorBytes(heap, D.accessors[src[j].data.i])
                        /\ (last.op = "flatten" /\ last.status = "ok") =>
                            LET F == heap[last.ret]
                                fin == OtherAttrs(F, F.prims[k])
                            IN  /\ Len(fin) = Len(src)
                                /\ fin[j].data.d = last.ret
                                /\ AccessorBytes(heap, F.accessors[fin[j].data.i])
                                        = AccessorBytes(heap, D.accessors[src[j].data.i])

----------------------------------------------------------------------------
(* Layout of the document parameterize returns. *)

----------------------------------------------------------------------------
(* flatten called twice on the same loaded asset. *)

\* flatten has returned for the second time on the loaded single-buffer
\* asset (handle 1): the first call left documents 2 (flattenPrims) and 3
\* (its result), the second documents 4 and 5.
FlattenedTwice ==
    /\ last.op = "flatten" /\ last.status = "ok" /\ last.arg = 1
    /\ calls = 2 /\ Len(heap) = 5 /\ last.ret = 5
    /\ Len(heap[1].buffers) = 1

\* C26: flatten can be called twice on the same loaded single-buffer asset
\* that has textures and images: the two results are structurally equal, and
\* every texture of the second result references the image of that result
\* with the index the first result's texture has.
C26_FlattenRepeatable ==
    (FlattenedTwice /\ Len(Textures(heap, 1)) > 0 /\ Len(Images(heap, 1)) > 0) =>
        /\ SameStructure(heap, 3, 5)
        /\ \A i \in 1..Len(Textures(heap, 5)) :
            /\ Textures(heap, 5)[i].image.d = heap[5].imagesAt
            /\ Textures(heap, 5)[i].image.i = Textures(heap, 3)[i].image.i
            /\ Addresses(Textures(heap, 5)[i].image, Images(heap, 5))

----------------------------------------------------------------------------
(* The lifetime of the atlas, repeated parameterize, unreachable nodes and
   the attribute count of flattenPrims. *)

\* How many calls of function fn the log of atlas calls holds.
CallCount(fn) == Cardinality({i \in 1..Len(xatlas) : xatlas[i].fn = fn})

\* C27: whenever parameterize returns, with a document or with nothing
\* (a mesh the atlas refused, a conversion that was rejected), every atlas it
\* created has been destroyed exactly once.
C27_AtlasDestroyedOnce ==
    (last.op = "parameterize" /\ last.status = "ok") =>
        /\ CallCount("Destroy") = CallCount("Create")
        /\ CallCount("Create") <= 1
        /\ CallCount("Create") = 1 => xatlas[Len(xatlas)].fn = "Destroy"

\* The positions, in the attribute list of primitive P of document R, of the
\* attributes named after the baked UV set.
BakedUvAttrs(R, P) ==
    {a \in 1..P.attributes_count : R.attributes[P.attributes + a - 1].name = BAKED_UV_ATTRIB}

\* C28: after parameterize, also when it is applied to a document that
\* parameterize returned, every primitive of the result has exactly one
\* attribute named TEXCOORD_4, of type texcoord and set index 4.
C28_OneBakedUvPerPrimitive ==
    Parameterized =>
        \A i \in 1..Len(heap[last.ret].meshes) :
            LET R == heap[last.ret]
                P == ResultPrim(R, i)
            IN  /\ Cardinality(BakedUvAttrs(R, P)) = 1
                /\ \A a \in BakedUvAttrs(R, P) :
                    /\ R.attributes[P.attributes + a - 1].type = "texcoord"
                    /\ R.attributes[P.attributes + a - 1].index = BAKED_UV_ATTRIB_INDEX

\* The nodes of document D the default scene reaches: the nodes it lists and
\* their descendants (none when there is no default scene).
DefaultSceneReach(h, D) ==
    LET listed == IF D.scene.d <= 0 THEN {}
                  ELSE LET sc == h[D.scene.d].scenes[D.scene.i]
                       IN  {D.nodePointers[sc.nodes + j - 1].i : j \in 1..sc.nodes_count}
        reach[n \in 0..Len(D.nodes)] ==
            IF n = 0 THEN listed
            ELSE reach[n - 1] \cup
                 UNION {{D.nodes[i].children[c].i : c \in 1..Len(D.nodes[i].children)} :
                            i \in reach[n - 1] \cap (1..Len(D.nodes))}
    IN  reach[Len(D.nodes)] \cap (1..Len(D.nodes))

\* C29: flattenPrims bakes the eligible primitives of every node that has a
\* mesh, also of a node the default scene does not reach (listed by another
\* scene only, or by no scene): the output has one node per eligible pair of
\* the whole node array, the nodes cut off from the default scene included,
\* and every output node is a root listed by the single output scene.
C29_UnreachableNodesBaked ==
    \A run \in FlattenPrimsRuns :
        SoundDoc(heap[run[1]]) =>
            LET D == heap[run[1]]
                R == heap[run[2]]
                pairs == EligiblePairs(heap, run[1], flags)
                cut == {k \in 1..Len(pairs) :
                            pairs[k].node \notin DefaultSceneReach(heap, D)}
            IN  /\ Len(R.nodes) = Len(pairs)
                /\ \A k \in cut : R.nodes[k].name = D.nodes[pairs[k].node].name
                /\ Len(R.scenes) = 1
                /\ R.scenes[1].nodes_count = Len(R.nodes)
                /\ {R.nodePointers[R.scenes[1].nodes + k - 1] : k \in 1..Len(R.nodes)}
                        = {[d |-> run[2], i |-> k] : k \in 1..Len(R.nodes)}
                /\ \A k \in 1..Len(R.nodes) :
                        IsNull(R.nodes[k].parent) /\ R.nodes[k].children = <<>>

\* C29 witness: flattenPrims has returned two root nodes for a document
\* whose default scene lists nothing and whose other scene lists the root;
\* both source nodes with a mesh are cut off from the default scene.
C29_Witness ==
    /\ last.op = "flattenPrims" /\ last.status = "ok"
    /\ SoundDoc(heap[last.arg])
    /\ Len(heap[last.arg].scenes) = 2
    /\ DefaultSceneReach(heap, heap[last.arg]) = {}
    /\ Len(heap[last.ret].nodes) = 2
    /\ heap[last.ret].scenes[1].nodes_count = 2
    /\ heap[last.ret].nodes[1].name # heap[last.ret].nodes[2].name

\* C30: for every single-buffer input, flattenPrims (called directly or by
\* flatten) does not fail its assertion attrIndex == numAttributes, and in
\* the document it builds every primitive's attributes_count is the number of
\* attribute records written for it: the records of the primitives follow
\* one another without gap or overlap and fill the attribute array, also for
\* primitives without POSITION or with more than one NORMAL or TANGENT.
C30_AttributeCountMatchesRecords ==
    (/\ last.op \in {"flattenPrims", "flatten"}
     /\ Len(heap[last.pre].buffers) = 1
     /\ SoundDoc(heap[last.pre])) =>
        /\ last.status # "assert"
        /\ last.mid # 0 =>
            LET R == heap[last.mid]
                cnt == [k \in 1..Len(R.prims) |-> R.prims[k].attributes_count]
            IN  /\ Len(R.attributes) = SumTo(cnt, Len(R.prims))
                /\ \A k \in 1..Len(R.prims) :
                    /\ R.prims[k].attributes = 1 + SumTo(cnt, k - 1)
                    /\ \A a \in 1..cnt[k] :
                        /\ R.prims[k].attributes + a - 1 \in 1..Len(R.attributes)
                        /\ R.attributes[R.prims[k].attributes + a - 1] # ZeroAttr

====
